---------------------------- MODULE Spec2Model ----------------------------
(***************************************************************************)
(* A model of xwlm's monitor arrangement engine (src/src/app.rs), of the   *)
(* UI loop that drives it (src/src/ui.rs, src/src/main.rs) and of the      *)
(* config writer it calls (crates/xwlm-cfg/src/format.rs).                 *)
(*                                                                         *)
(* The methods of App are operators from an App value (a record of its     *)
(* fields plus the two things its methods act on: the action channel and   *)
(* the config file) to the App value after the call.  An action of a       *)
(* specification is one pass of the run loop: a notification or a key and  *)
(* the whole of what the loop does with it.                                *)
(*                                                                         *)
(* Conventions.  Option<T>: None is <<>>, Some(v) is <<v>>.  Vec indices   *)
(* are the code's (0-based); Get(v, i) reads v[i].  A position (i32, i32)  *)
(* is <<x, y>>.  A scale (f64) is counted in hundredths: 1.0 is 100, and   *)
(* the step 0.01 of scale_up/scale_down is 1.                              *)
(***************************************************************************)
EXTENDS Integers, Sequences, FiniteSets, TLC

VARIABLES
    monitors,                \* App.monitors: Vec<WlMonitor>
    selected_monitor,        \* App.selected_monitor: usize
    mode_state,              \* App.mode_state.selected(): Option<usize>
    transform_state,         \* App.transform_state.selected(): Option<usize>
    pending_scale,           \* App.pending_scale, in hundredths
    pending_positions,       \* App.pending_positions: HashMap<usize,(i32,i32)>
    panel,                   \* App.panel
    needs_save,              \* App.needs_save
    pending_toggle_warning,  \* App.pending_toggle_warning
    workspace_assignments,   \* App.workspace_assignments: Vec<{id, monitor_idx}>
    workspace_state,         \* App.workspace_state.selected(): Option<usize>
    initial_workspace_names, \* App.initial_workspace_names: Option<Vec<(usize,String)>>
    last_move_direction,     \* App.last_move_direction: Option<PositionDirection>
    move_repeat_count,       \* App.move_repeat_count
    compositor,              \* App.compositor
    monitor_config_path,     \* App.monitor_config_path
    controller,              \* requests in the action channel (App.controller)
    file,                    \* Option<content> of the file at monitor_config_path
    io,                      \* file-system/process effects of the last call
    event_rx,                \* notifications in the channel worker -> UI
    ui,                      \* position of the UI thread (ui::run)
    worker,                  \* position of the display-server worker thread
    op,                      \* the last call: its name and arguments
    prev                     \* the App value before the last call

app_vars == <<monitors, selected_monitor, mode_state, transform_state,
              pending_scale, pending_positions, panel, needs_save,
              pending_toggle_warning, workspace_assignments, workspace_state,
              initial_workspace_names, last_move_direction, move_repeat_count,
              compositor, monitor_config_path, controller, file, io>>

vars == <<app_vars, event_rx, ui, worker, op, prev>>

---------------------------------------------------------------------------
(* Option, Vec and HashMap helpers *)

None == << >>

Some(v) == <<v>>

IsSome(o) == o /= << >>

Unwrap(o) == o[1]

Get(v, i) == v[i + 1]

Indices(v) == 0 .. (Len(v) - 1)

Max2(a, b) == IF a >= b THEN a ELSE b

Min2(a, b) == IF a <= b THEN a ELSE b

Abs(a) == IF a < 0 THEN -a ELSE a

SetMax(S) == CHOOSE m \in S : \A n \in S : n <= m

SetMin(S) == CHOOSE m \in S : \A n \in S : m <= n

\* HashMap::insert
Insert(map, k, v) == [i \in (DOMAIN map) \cup {k} |-> IF i = k THEN v ELSE map[i]]

EmptyMap == [i \in {} |-> <<0, 0>>]

\* Iterator::position: the first of the 0-based indices hits, those whose
\* element satisfies the predicate
Position(hits) == IF hits = {} THEN None ELSE Some(SetMin(hits))

\* every ordering of a finite set, as sequences (HashMap iteration order)
RECURSIVE Orderings(_)
Orderings(S) ==
    IF S = {} THEN {<< >>}
    ELSE UNION {{<<e>> \o t : t \in Orderings(S \ {e})} : e \in S}

---------------------------------------------------------------------------
(* Program constants *)

\* TRANSFORMS: Normal, Rotate90, Rotate180, Rotate270, Flipped, Flipped90,
\* Flipped180, Flipped270 are 0..7, their index in the array
TRANSFORMS == <<0, 1, 2, 3, 4, 5, 6, 7>>

REPEAT_WINDOW_MS == 200

\* scale_up: .min(10.0); scale_down: .max(0.5); in hundredths
ScaleMax == 1000

ScaleMin == 50

\* mpsc::sync_channel(16), both channels
ChannelCap == 16

Panels == {"Map", "Modes", "Workspaces", "Scale", "Transform"}

Directions == {"Left", "Right", "Up", "Down"}

---------------------------------------------------------------------------
(* Bounds of the model *)

\* App::new(.., workspace_count)
workspace_count == 2

\* moves are explored while the pending coordinates stay at or below this
MaxCoord == 2

\* and while move_repeat_count stays at or below this
MaxRepeat == 1

\* the scale keys are followed this many presses away from a reported scale
MaxScaleSteps == 2

\* the largest x of a saved position
MaxSaved == 4


---------------------------------------------------------------------------
(* WlMonitor values *)

Mode(w, h, refresh, is_current, preferred) ==
    [resolution |-> [width |-> w, height |-> h], refresh_rate |-> refresh,
     is_current |-> is_current, preferred |-> preferred]

Monitor(name, enabled, x, y, scale, transform, modes) ==
    [name |-> name, enabled |-> enabled, position |-> [x |-> x, y |-> y],
     scale |-> scale, transform |-> transform, modes |-> modes,
     resolution |-> [width |-> 0, height |-> 0]]


\* monitor_resolution: the current mode's size, else the preferred mode's,
\* else the first mode's, else the monitor's own resolution
monitor_resolution(m) ==
    LET cur  == Position({k \in Indices(m.modes) : LET md == Get(m.modes, k) IN md.is_current})
        pref == Position({k \in Indices(m.modes) : LET md == Get(m.modes, k) IN md.preferred})
        size(md) == <<md.resolution.width, md.resolution.height>>
    IN  IF IsSome(cur) THEN size(Get(m.modes, Unwrap(cur)))
        ELSE IF IsSome(pref) THEN size(Get(m.modes, Unwrap(pref)))
        ELSE IF m.modes /= << >> THEN size(m.modes[1])
        ELSE <<m.resolution.width, m.resolution.height>>

\* effective_dimensions: width and height swap under the four 90/270 transforms
effective_dimensions(m) ==
    LET r == monitor_resolution(m)
    IN  IF m.transform \in {1, 3, 5, 7} THEN <<r[2], r[1]>> ELSE r

---------------------------------------------------------------------------
(* The App value *)

St == [monitors |-> monitors,
       selected_monitor |-> selected_monitor,
       mode_state |-> mode_state,
       transform_state |-> transform_state,
       pending_scale |-> pending_scale,
       pending_positions |-> pending_positions,
       panel |-> panel,
       needs_save |-> needs_save,
       pending_toggle_warning |-> pending_toggle_warning,
       workspace_assignments |-> workspace_assignments,
       workspace_state |-> workspace_state,
       initial_workspace_names |-> initial_workspace_names,
       last_move_direction |-> last_move_direction,
       move_repeat_count |-> move_repeat_count,
       compositor |-> compositor,
       monitor_config_path |-> monitor_config_path,
       controller |-> controller,
       file |-> file,
       io |-> io]

\* App::new: the state after construction, for the compositor, the path, the
\* workspace lines parsed from the file at that path and the file's content
New(comp, path, ws_names, content) ==
    [monitors |-> << >>,
     selected_monitor |-> 0,
     mode_state |-> None,
     transform_state |-> Some(0),
     pending_scale |-> 100,
     pending_positions |-> EmptyMap,
     panel |-> "Map",
     needs_save |-> FALSE,
     pending_toggle_warning |-> FALSE,
     workspace_assignments |->
         [i \in 1 .. workspace_count |-> [id |-> i, monitor_idx |-> None]],
     workspace_state |-> Some(0),
     initial_workspace_names |-> Some(ws_names),
     last_move_direction |-> None,
     move_repeat_count |-> 0,
     compositor |-> comp,
     monitor_config_path |-> path,
     controller |-> << >>,
     file |-> content,
     io |-> << >>]

\* SyncSender::send of one request on App.controller
Send(a, msg) == [a EXCEPT !.controller = Append(@, msg)]

---------------------------------------------------------------------------
(* Persistence: App::save_config and xwlm_cfg::format *)

\* reload: Hyprland and Sway run their reload command, the others nothing
reload(a) ==
    IF a.compositor \in {"Hyprland", "Sway"}
    THEN [a EXCEPT !.io = Append(@, "reload")]
    ELSE a

\* A file's text is a sequence of lines; a line is a sequence of tokens in
\* which the literal text of the format string stands at the odd places and
\* the formatted arguments at the even places.  Integers are formatted by
\* ToString, as {} does.

\* current_mode: the mode marked current, else (0, 0, 60)
current_mode(monitor) ==
    LET cur == Position({k \in Indices(monitor.modes) :
                            LET m == Get(monitor.modes, k) IN m.is_current})
    IN  IF IsSome(cur)
        THEN LET m == Get(monitor.modes, Unwrap(cur))
             IN  <<m.resolution.width, m.resolution.height, m.refresh_rate>>
        ELSE <<0, 0, 60>>

\* format_scale: a whole scale prints as its integer, any other with two
\* decimals; the scale is in hundredths
format_scale(scale) ==
    IF scale % 100 = 0 THEN ToString(scale \div 100)
    ELSE ToString(scale \div 100) \o "."
         \o (IF scale % 100 < 10 THEN "0" ELSE "") \o ToString(scale % 100)

\* transform codes that are the degrees of the rotation
transform_to_hyprland_degrees(t) == <<0, 90, 180, 270, 4, 5, 6, 7>>[t + 1]

transform_to_hyprland(t) == <<0, 1, 2, 3, 4, 5, 6, 7>>[t + 1]

transform_to_sway(t) ==
    <<"normal", "90", "180", "270",
      "flipped", "flipped-90", "flipped-180", "flipped-270">>[t + 1]

\* a Hyprland text in which a disabled monitor has the disable line in
\* place of its monitor line
format_hyprland_disable_instead(mons, workspaces) ==
    LET RECURSIVE monitor_lines(_)
        monitor_lines(ms) ==
            IF ms = << >> THEN << >>
            ELSE LET m    == Head(ms)
                     cm   == current_mode(m)
                     base == <<"monitor = ", m.name, ", ", ToString(cm[1]), "x",
                               ToString(cm[2]), "@", ToString(cm[3]), ", ",
                               ToString(m.position.x), "x",
                               ToString(m.position.y), ", ",
                               format_scale(m.scale)>>
                 IN  <<IF ~m.enabled THEN <<"monitor = ", m.name, ", disable">>
                       ELSE IF m.transform /= 0
                       THEN base \o <<", transform, ",
                                      ToString(transform_to_hyprland(m.transform))>>
                       ELSE base>>
                     \o monitor_lines(Tail(ms))
        RECURSIVE ws_lines(_)
        ws_lines(wss) ==
            IF wss = << >> THEN << >>
            ELSE LET ws == Head(wss)
                 IN  (IF IsSome(ws[2])
                      THEN <<<<"workspace = ", ToString(ws[1]), ", monitor:",
                               Unwrap(ws[2])>>>>
                      ELSE << >>)
                     \o ws_lines(Tail(wss))
    IN  monitor_lines(mons)
        \o (IF ws_lines(workspaces) /= << >>
            THEN <<<< >>>> \o ws_lines(workspaces) ELSE << >>)
        \o <<<< >>>>

\* format_hyprland: per monitor its monitor line, with the transform clause
\* unless the transform is Normal, and after it a disable line if the monitor
\* is disabled; then a blank line and the workspace lines, if any workspace
\* names a monitor; a final newline
format_hyprland(mons, workspaces) ==
    LET RECURSIVE monitor_lines(_)
        monitor_lines(ms) ==
            IF ms = << >> THEN << >>
            ELSE LET m    == Head(ms)
                     cm   == current_mode(m)
                     base == <<"monitor = ", m.name, ", ", ToString(cm[1]), "x",
                               ToString(cm[2]), "@", ToString(cm[3]), ", ",
                               ToString(m.position.x), "x",
                               ToString(m.position.y), ", ",
                               format_scale(m.scale)>>
                 IN  <<IF m.transform /= 0
                       THEN base \o <<", transform, ",
                                      ToString(transform_to_hyprland(m.transform))>>
                       ELSE base>>
                     \o (IF ~m.enabled
                         THEN <<<<"monitor = ", m.name, ", disable">>>>
                         ELSE << >>)
                     \o monitor_lines(Tail(ms))
        RECURSIVE ws_lines(_)
        ws_lines(wss) ==
            IF wss = << >> THEN << >>
            ELSE LET ws == Head(wss)
                 IN  (IF IsSome(ws[2])
                      THEN <<<<"workspace = ", ToString(ws[1]), ", monitor:",
                               Unwrap(ws[2])>>>>
                      ELSE << >>)
                     \o ws_lines(Tail(wss))
    IN  monitor_lines(mons)
        \o (IF ws_lines(workspaces) /= << >>
            THEN <<<< >>>> \o ws_lines(workspaces) ELSE << >>)
        \o <<<< >>>>

\* format_sway: blocks separated by a blank line: per monitor "output <name>
\* disable" if it is disabled, else its output block; then the workspace
\* lines as one block; a final empty block
format_sway(mons, workspaces) ==
    LET RECURSIVE blocks(_)
        blocks(ms) ==
            IF ms = << >> THEN << >>
            ELSE LET m  == Head(ms)
                     cm == current_mode(m)
                 IN  <<IF ~m.enabled THEN <<"output ", m.name, " disable">>
                       ELSE <<"output ", m.name, " {\n    mode ",
                              ToString(cm[1]), "x", ToString(cm[2]), "@",
                              ToString(cm[3]), "Hz\n    pos ",
                              ToString(m.position.x), " ",
                              ToString(m.position.y), "\n    scale ",
                              format_scale(m.scale), "\n    transform ",
                              transform_to_sway(m.transform), "\n}">>,
                       << >>>>
                     \o blocks(Tail(ms))
        RECURSIVE ws_lines(_)
        ws_lines(wss) ==
            IF wss = << >> THEN << >>
            ELSE LET ws == Head(wss)
                 IN  (IF IsSome(ws[2])
                      THEN <<<<"workspace ", ToString(ws[1]), " output ",
                               Unwrap(ws[2])>>>>
                      ELSE << >>)
                     \o ws_lines(Tail(wss))
    IN  blocks(mons)
        \o (IF ws_lines(workspaces) /= << >>
            THEN ws_lines(workspaces) \o <<<< >>>> ELSE << >>)
        \o <<<< >>>>

\* format_river: the shebang, then per monitor one wlr-randr line, --off if
\* the monitor is disabled; a final newline
format_river(mons) ==
    LET RECURSIVE lines(_)
        lines(ms) ==
            IF ms = << >> THEN << >>
            ELSE LET m  == Head(ms)
                     cm == current_mode(m)
                 IN  <<IF ~m.enabled
                       THEN <<"wlr-randr --output ", m.name, " --off">>
                       ELSE <<"wlr-randr --output ", m.name, " --mode ",
                              ToString(cm[1]), "x", ToString(cm[2]), "@",
                              ToString(cm[3]), "Hz --pos ",
                              ToString(m.position.x), ",",
                              ToString(m.position.y), " --scale ",
                              format_scale(m.scale), " --transform ",
                              transform_to_sway(m.transform)>>>>
                     \o lines(Tail(ms))
    IN  <<<<"#!/bin/sh">>>> \o lines(mons) \o <<<< >>>>

\* a save that writes the Hyprland text when the compositor is Unknown
save_monitor_config_for_any(comp, old_file, mons, workspaces, write_ok) ==
    IF write_ok
    THEN <<Some(CASE comp = "Sway" -> format_sway(mons, workspaces)
                  [] comp = "River" -> format_river(mons)
                  [] OTHER -> format_hyprland(mons, workspaces)),
           TRUE, TRUE>>
    ELSE <<old_file, FALSE, TRUE>>

\* save_monitor_config: Unknown returns Ok without writing; the others
\* std::fs::write the formatted monitors and workspaces, which succeeds
\* (write_ok) or fails and leaves the file as it was.  The result is
\* <<file after the call, the call returned Ok, a write was attempted>>.
save_monitor_config(comp, old_file, mons, workspaces, write_ok) ==
    IF comp = "Unknown" THEN <<old_file, TRUE, FALSE>>
    ELSE IF write_ok
         THEN <<Some(CASE comp = "Hyprland" -> format_hyprland(mons, workspaces)
                       [] comp = "Sway" -> format_sway(mons, workspaces)
                       [] comp = "River" -> format_river(mons)),
                TRUE, TRUE>>
         ELSE <<old_file, FALSE, TRUE>>

\* a save that serializes the positions the user has moved the monitors to
save_config_pending(a, write_ok) ==
    IF ~a.needs_save \/ a.monitor_config_path = "" THEN a
    ELSE LET workspaces ==
                 [i \in DOMAIN a.workspace_assignments |->
                     LET ws == a.workspace_assignments[i]
                     IN  <<ws.id,
                           IF IsSome(ws.monitor_idx)
                              /\ Unwrap(ws.monitor_idx) \in Indices(a.monitors)
                           THEN Some(Get(a.monitors, Unwrap(ws.monitor_idx)).name)
                           ELSE None>>]
             shown ==
                 [k \in DOMAIN a.monitors |->
                     IF (k - 1) \in DOMAIN a.pending_positions
                     THEN [a.monitors[k] EXCEPT
                               !.position.x = a.pending_positions[k - 1][1],
                               !.position.y = a.pending_positions[k - 1][2]]
                     ELSE a.monitors[k]]
             r == save_monitor_config(a.compositor, a.file, shown,
                                      workspaces, write_ok)
             b == [a EXCEPT !.needs_save = FALSE,
                            !.file = r[1],
                            !.io = IF r[3]
                                   THEN Append(@, IF r[2] THEN "write" ELSE "write_failed")
                                   ELSE @]
         IN  IF r[2] THEN reload(b) ELSE b

\* a save that runs the reload command whether or not the write succeeded
save_config_reload_always(a, write_ok) ==
    IF ~a.needs_save \/ a.monitor_config_path = "" THEN a
    ELSE LET workspaces ==
                 [i \in DOMAIN a.workspace_assignments |->
                     LET ws == a.workspace_assignments[i]
                     IN  <<ws.id,
                           IF IsSome(ws.monitor_idx)
                              /\ Unwrap(ws.monitor_idx) \in Indices(a.monitors)
                           THEN Some(Get(a.monitors, Unwrap(ws.monitor_idx)).name)
                           ELSE None>>]
             r == save_monitor_config(a.compositor, a.file, a.monitors,
                                      workspaces, write_ok)
             b == [a EXCEPT !.needs_save = FALSE,
                            !.file = r[1],
                            !.io = IF r[3]
                                   THEN Append(@, IF r[2] THEN "write" ELSE "write_failed")
                                   ELSE @]
         IN  reload(b)

\* App::save_config
save_config(a, write_ok) ==
    IF ~a.needs_save \/ a.monitor_config_path = "" THEN a
    ELSE LET workspaces ==
                 [i \in DOMAIN a.workspace_assignments |->
                     LET ws == a.workspace_assignments[i]
                     IN  <<ws.id,
                           IF IsSome(ws.monitor_idx)
                              /\ Unwrap(ws.monitor_idx) \in Indices(a.monitors)
                           THEN Some(Get(a.monitors, Unwrap(ws.monitor_idx)).name)
                           ELSE None>>]
             r == save_monitor_config(a.compositor, a.file, a.monitors,
                                      workspaces, write_ok)
             b == [a EXCEPT !.needs_save = FALSE,
                            !.file = r[1],
                            !.io = IF r[3]
                                   THEN Append(@, IF r[2] THEN "write" ELSE "write_failed")
                                   ELSE @]
         IN  IF r[2] THEN reload(b) ELSE b

---------------------------------------------------------------------------
(* Workspace parsing: xwlm_cfg::workspace.  A line is a string; the white   *)
(* space of the texts here is the space and the tab.                        *)

\* str::trim_start
RECURSIVE trim_start(_)
trim_start(s) ==
    IF s /= "" /\ Head(s) \in {" ", "\t"} THEN trim_start(Tail(s)) ELSE s

\* str::trim
RECURSIVE trim(_)
trim(s) ==
    LET t == trim_start(s)
    IN  IF t /= "" /\ SubSeq(t, Len(t), Len(t)) \in {" ", "\t"}
        THEN trim(SubSeq(t, 1, Len(t) - 1))
        ELSE t

\* a strip_prefix that takes the prefix off wherever the line holds it
strip_prefix_anywhere(s, prefix) ==
    LET hits == {i \in 1 .. Len(s) - Len(prefix) + 1 :
                    SubSeq(s, i, i + Len(prefix) - 1) = prefix}
    IN  IF hits = {} THEN None
        ELSE Some(SubSeq(s, SetMin(hits) + Len(prefix), Len(s)))

\* str::strip_prefix: the rest of s after prefix, if s begins with it
strip_prefix(s, prefix) ==
    IF Len(s) >= Len(prefix) /\ SubSeq(s, 1, Len(prefix)) = prefix
    THEN Some(SubSeq(s, Len(prefix) + 1, Len(s)))
    ELSE None

\* str::split_once: s before and after its first character in delims
split_once(s, delims) ==
    LET hits == {i \in 1 .. Len(s) : SubSeq(s, i, i) \in delims}
    IN  IF hits = {} THEN None
        ELSE Some(<<SubSeq(s, 1, SetMin(hits) - 1),
                    SubSeq(s, SetMin(hits) + 1, Len(s))>>)

\* str::parse::<usize>: decimal digits, at least one, after an optional
\* '+' (the texts here have no number that overflows a usize)
parse_usize(s) ==
    LET d == IF s /= "" /\ Head(s) = "+" THEN Tail(s) ELSE s
        digit(c) == CHOOSE n \in 0 .. 9 : ToString(n) = c
        RECURSIVE value(_)
        value(t) ==
            IF t = "" THEN 0
            ELSE 10 * value(SubSeq(t, 1, Len(t) - 1))
                 + digit(SubSeq(t, Len(t), Len(t)))
    IN  IF d = "" \/ \E i \in 1 .. Len(d) :
                        \A n \in 0 .. 9 : ToString(n) /= SubSeq(d, i, i)
        THEN None
        ELSE Some(value(d))

\* str::lines of a file's text: the tokens of each line of the model joined,
\* and split at the newlines within them
lines(text) ==
    LET RECURSIVE flat(_)
        flat(tokens) ==
            IF tokens = << >> THEN "" ELSE Head(tokens) \o flat(Tail(tokens))
        RECURSIVE split(_)
        split(s) ==
            LET cut == split_once(s, {"\n"})
            IN  IF IsSome(cut)
                THEN <<Unwrap(cut)[1]>> \o split(Unwrap(cut)[2])
                ELSE <<s>>
        RECURSIVE all(_)
        all(t) == IF t = << >> THEN << >> ELSE split(flat(Head(t))) \o all(Tail(t))
    IN  all(text)

\* parse_hyprland_workspaces: the pairs of the lines
\* workspace = <id>, monitor:<name>; any other line gives nothing
parse_hyprland_workspaces(content) ==
    LET line_pair(line) ==
            LET r1 == strip_prefix(trim(line), "workspace")
                r2 == IF IsSome(r1)
                      THEN strip_prefix(trim_start(Unwrap(r1)), "=") ELSE None
                r3 == IF IsSome(r2)
                      THEN split_once(trim_start(Unwrap(r2)), {","}) ELSE None
                id == IF IsSome(r3) THEN parse_usize(trim(Unwrap(r3)[1])) ELSE None
                monitor == IF IsSome(id)
                           THEN strip_prefix(trim(Unwrap(r3)[2]), "monitor:")
                           ELSE None
            IN  IF IsSome(monitor)
                THEN <<<<Unwrap(id), trim(Unwrap(monitor))>>>> ELSE << >>
        RECURSIVE pairs(_)
        pairs(ls) == IF ls = << >> THEN << >>
                     ELSE line_pair(Head(ls)) \o pairs(Tail(ls))
    IN  pairs(content)

\* parse_sway_workspaces: the pairs of the lines workspace <id> output <name>
parse_sway_workspaces(content) ==
    LET line_pair(line) ==
            LET r1 == strip_prefix(trim(line), "workspace")
                r2 == IF IsSome(r1)
                      THEN split_once(trim_start(Unwrap(r1)), {" ", "\t"})
                      ELSE None
                id == IF IsSome(r2) THEN parse_usize(trim(Unwrap(r2)[1])) ELSE None
                monitor == IF IsSome(id)
                           THEN strip_prefix(trim(Unwrap(r2)[2]), "output")
                           ELSE None
            IN  IF IsSome(monitor)
                THEN <<<<Unwrap(id), trim_start(Unwrap(monitor))>>>> ELSE << >>
        RECURSIVE pairs(_)
        pairs(ls) == IF ls = << >> THEN << >>
                     ELSE line_pair(Head(ls)) \o pairs(Tail(ls))
    IN  pairs(content)

\* parse_workspace_config: nothing if the file cannot be read (content is
\* None) or the compositor is neither Hyprland nor Sway
parse_workspace_config(comp, content) ==
    IF ~IsSome(content) THEN << >>
    ELSE CASE comp = "Hyprland" -> parse_hyprland_workspaces(lines(Unwrap(content)))
           [] comp = "Sway" -> parse_sway_workspaces(lines(Unwrap(content)))
           [] OTHER -> << >>

---------------------------------------------------------------------------
(* Notifications: set_monitors, update_monitor, remove_monitor *)

sync_panel_state(a) ==
    IF a.selected_monitor \notin Indices(a.monitors) THEN a
    ELSE LET monitor  == Get(a.monitors, a.selected_monitor)
             tidx     == Position({k \in Indices(TRANSFORMS) : LET x == Get(TRANSFORMS, k) IN x = monitor.transform})
             mode_idx == Position({k \in Indices(monitor.modes) : LET md == Get(monitor.modes, k) IN md.is_current})
         IN  [a EXCEPT !.pending_scale = monitor.scale,
                       !.transform_state = IF IsSome(tidx) THEN tidx ELSE @,
                       !.mode_state = IF IsSome(mode_idx) THEN mode_idx ELSE Some(0)]

validate_workspace_assignments(a) ==
    LET mon_count == Len(a.monitors)
        clear(ws) == IF IsSome(ws.monitor_idx) /\ Unwrap(ws.monitor_idx) >= mon_count
                     THEN [ws EXCEPT !.monitor_idx = None]
                     ELSE ws
    IN  [a EXCEPT !.workspace_assignments =
            [i \in DOMAIN a.workspace_assignments |-> clear(a.workspace_assignments[i])]]

\* the loop of resolve_initial_workspaces over the parsed (id, name) pairs
RECURSIVE ResolveNames(_, _, _)
ResolveNames(assignments, mons, names) ==
    IF names = << >> THEN assignments
    ELSE LET ws_id        == Head(names)[1]
             monitor_name == Head(names)[2]
             monitor_idx  == Position({k \in Indices(mons) : LET m == Get(mons, k) IN m.name = monitor_name})
             found        == Position({k \in Indices(assignments) : LET ws == Get(assignments, k) IN ws.id = ws_id})
         IN  ResolveNames(
                 IF IsSome(found)
                 THEN [assignments EXCEPT ![Unwrap(found) + 1].monitor_idx = monitor_idx]
                 ELSE assignments,
                 mons, Tail(names))

resolve_initial_workspaces(a) ==
    IF ~IsSome(a.initial_workspace_names) THEN a
    ELSE [a EXCEPT !.initial_workspace_names = None,
                   !.workspace_assignments =
                       ResolveNames(@, a.monitors, Unwrap(a.initial_workspace_names))]

set_monitors(a, mons) ==
    LET b == [a EXCEPT !.monitors = mons]
        c == IF mons /= << >>
             THEN sync_panel_state([b EXCEPT !.selected_monitor = 0,
                                             !.mode_state = Some(0)])
             ELSE b
    IN  validate_workspace_assignments(resolve_initial_workspaces(c))

\* a change notification handled by dropping the old entry and pushing the
\* new one at the end
update_monitor_reappending(a, monitor) ==
    LET b == [a EXCEPT !.monitors =
                  Append(SelectSeq(@, LAMBDA m : m.name /= monitor.name), monitor)]
    IN  validate_workspace_assignments(sync_panel_state(b))

update_monitor(a, monitor) ==
    LET existing == Position({k \in Indices(a.monitors) : LET m == Get(a.monitors, k) IN m.name = monitor.name})
        b == IF IsSome(existing)
             THEN [a EXCEPT !.monitors[Unwrap(existing) + 1] = monitor]
             ELSE [a EXCEPT !.monitors = Append(@, monitor)]
    IN  validate_workspace_assignments(sync_panel_state(b))

\* remove_monitor without its closing validate_workspace_assignments
remove_monitor_unvalidated(a, name) ==
    LET b == [a EXCEPT !.monitors = SelectSeq(@, LAMBDA m : m.name /= name \/ ~m.enabled)]
        c == IF b.selected_monitor >= Len(b.monitors)
             THEN [b EXCEPT !.selected_monitor = Max2(Len(b.monitors) - 1, 0)]
             ELSE b
    IN  sync_panel_state(c)

remove_monitor(a, name) ==
    LET b == [a EXCEPT !.monitors = SelectSeq(@, LAMBDA m : m.name /= name \/ ~m.enabled)]
        c == IF b.selected_monitor >= Len(b.monitors)
             THEN [b EXCEPT !.selected_monitor = Max2(Len(b.monitors) - 1, 0)]
             ELSE b
    IN  validate_workspace_assignments(sync_panel_state(c))

---------------------------------------------------------------------------
(* Selection *)

\* a selection that resets the mode cursor and leaves the panel state as the
\* monitor selected before had it
select_next_monitor_unsynced(a) ==
    IF a.monitors = << >> THEN a
    ELSE [a EXCEPT !.selected_monitor = (@ + 1) % Len(a.monitors),
                   !.mode_state = Some(0)]


select_next_monitor(a) ==
    IF a.monitors = << >> THEN a
    ELSE sync_panel_state(
             [a EXCEPT !.selected_monitor = (@ + 1) % Len(a.monitors),
                       !.mode_state = Some(0)])

select_prev_monitor(a) ==
    IF a.monitors = << >> THEN a
    ELSE sync_panel_state(
             [a EXCEPT !.selected_monitor = IF @ = 0 THEN Len(a.monitors) - 1 ELSE @ - 1,
                       !.mode_state = Some(0)])

---------------------------------------------------------------------------
(* Scale *)

scale_up(a) == [a EXCEPT !.pending_scale = Min2(@ + 1, ScaleMax)]

scale_down(a) == [a EXCEPT !.pending_scale = Max2(@ - 1, ScaleMin)]

---------------------------------------------------------------------------
(* Toggle and placement on enable *)

\* the AABB test of position_overlaps and of move_monitor
Overlaps(x1, y1, w1, h1, x2, y2, w2, h2) ==
    x1 < x2 + w2 /\ x1 + w1 > x2 /\ y1 < y2 + h2 /\ y1 + h1 > y2

position_overlaps(a, exclude_name, pos, size) ==
    \E i \in Indices(a.monitors) :
        LET m == Get(a.monitors, i)
            d == effective_dimensions(m)
        IN  /\ ~(m.name = exclude_name \/ ~m.enabled)
            /\ Overlaps(pos[1], pos[2], size[1], size[2],
                        m.position.x, m.position.y, d[1], d[2])

\* the enabled monitors other than exclude_name, as indices
EnabledOthers(a, exclude_name) ==
    {i \in Indices(a.monitors) :
        Get(a.monitors, i).enabled /\ Get(a.monitors, i).name /= exclude_name}

\* the four probe positions, in the order the code pushes them
Candidates(a, exclude_name, size) ==
    LET en == EnabledOthers(a, exclude_name)
        min_left   == SetMin({Get(a.monitors, i).position.x : i \in en})
        max_right  == SetMax({Get(a.monitors, i).position.x
                                + effective_dimensions(Get(a.monitors, i))[1] : i \in en})
        min_top    == SetMin({Get(a.monitors, i).position.y : i \in en})
        max_bottom == SetMax({Get(a.monitors, i).position.y
                                + effective_dimensions(Get(a.monitors, i))[2] : i \in en})
    IN  << <<min_left - size[1], 0>>, <<max_right, 0>>,
           <<0, min_top - size[2]>>, <<0, max_bottom>> >>

Manhattan(p, q) == Abs(p[1] - q[1]) + Abs(p[2] - q[2])

\* a placement that takes the first free probe, whatever its distance
calculate_first_non_overlapping_position(a, exclude_name, preferred_pos, size) ==
    IF EnabledOthers(a, exclude_name) = {} THEN preferred_pos
    ELSE LET candidates == Candidates(a, exclude_name, size)
             free == SelectSeq(candidates,
                        LAMBDA pos : ~position_overlaps(a, exclude_name, pos, size))
         IN  IF free = << >> THEN candidates[2] ELSE free[1]

calculate_closest_non_overlapping_position(a, exclude_name, preferred_pos, size) ==
    IF EnabledOthers(a, exclude_name) = {} THEN preferred_pos
    ELSE LET candidates == Candidates(a, exclude_name, size)
             free == SelectSeq(candidates,
                        LAMBDA pos : ~position_overlaps(a, exclude_name, pos, size))
             \* min_by_key: the first of the elements with the smallest key
             best == SetMin({i \in DOMAIN free :
                        \A j \in DOMAIN free :
                            Manhattan(free[i], preferred_pos)
                                <= Manhattan(free[j], preferred_pos)})
         IN  IF free = << >> THEN candidates[2] ELSE free[best]

\* a default placement at the largest x of the others, their width left out
calculate_leftmost_position(a, exclude_name) ==
    LET en == EnabledOthers(a, exclude_name)
    IN  IF en = {} THEN <<0, 0>>
        ELSE <<SetMax({Get(a.monitors, i).position.x : i \in en}), 0>>

calculate_non_overlapping_position(a, exclude_name) ==
    LET en == EnabledOthers(a, exclude_name)
    IN  IF en = {} THEN <<0, 0>>
        ELSE <<SetMax({Get(a.monitors, i).position.x
                         + effective_dimensions(Get(a.monitors, i))[1] : i \in en}), 0>>

\* saved_pos is what get_saved_monitor_position read from the file at
\* monitor_config_path for monitor_name: Option<(x, y)>
\* a toggle that trusts the saved position and sends it unchecked
perform_toggle_trusting(a, monitor_name, currently_enabled, saved_pos) ==
    LET will_enable == ~currently_enabled
        position ==
            IF will_enable
            THEN IF IsSome(saved_pos) THEN saved_pos
                 ELSE Some(calculate_non_overlapping_position(a, monitor_name))
            ELSE None
        b == Send(a, [type |-> "Toggle", name |-> monitor_name,
                      mode |-> None, position |-> position])
    IN  [b EXCEPT !.needs_save = TRUE]


perform_toggle(a, monitor_name, currently_enabled, saved_pos) ==
    LET will_enable == ~currently_enabled
        found == Position({k \in Indices(a.monitors) : LET m == Get(a.monitors, k) IN m.name = monitor_name})
        size  == IF IsSome(found)
                 THEN effective_dimensions(Get(a.monitors, Unwrap(found)))
                 ELSE <<1920, 1080>>
        position ==
            IF will_enable
            THEN IF IsSome(saved_pos)
                 THEN IF position_overlaps(a, monitor_name, Unwrap(saved_pos), size)
                      THEN Some(calculate_closest_non_overlapping_position(
                                    a, monitor_name, Unwrap(saved_pos), size))
                      ELSE saved_pos
                 ELSE Some(calculate_non_overlapping_position(a, monitor_name))
            ELSE None
        b == Send(a, [type |-> "Toggle", name |-> monitor_name,
                      mode |-> None, position |-> position])
    IN  [b EXCEPT !.needs_save = TRUE]

enabled_count(a) == Cardinality({i \in Indices(a.monitors) : Get(a.monitors, i).enabled})

toggle_monitor(a, saved_pos) ==
    IF a.pending_toggle_warning
    THEN LET b == [a EXCEPT !.pending_toggle_warning = FALSE]
         IN  IF a.selected_monitor \notin Indices(a.monitors) THEN b
             ELSE perform_toggle(b, Get(a.monitors, a.selected_monitor).name,
                                 Get(a.monitors, a.selected_monitor).enabled, saved_pos)
    ELSE IF a.selected_monitor \notin Indices(a.monitors) THEN a
    ELSE LET monitor == Get(a.monitors, a.selected_monitor)
         IN  IF monitor.enabled /\ enabled_count(a) = 1
             THEN [a EXCEPT !.pending_toggle_warning = TRUE]
             ELSE perform_toggle(a, monitor.name, monitor.enabled, saved_pos)

dismiss_warning(a) == [a EXCEPT !.pending_toggle_warning = FALSE]

---------------------------------------------------------------------------
(* Move, commit and reset of positions *)

display_position(a, idx) ==
    IF idx \in DOMAIN a.pending_positions THEN a.pending_positions[idx]
    ELSE IF idx \in Indices(a.monitors)
         THEN <<Get(a.monitors, idx).position.x, Get(a.monitors, idx).position.y>>
         ELSE <<0, 0>>

\* a repeat counter that grows with every move in the same direction,
\* however long after the previous one
MoveRepeat_any_time(a, direction, elapsed) ==
    LET same_direction == IsSome(a.last_move_direction)
                          /\ Unwrap(a.last_move_direction) = direction
    IN  IF same_direction THEN a.move_repeat_count + 1 ELSE 0

\* the step of a move: 1 + 2 * the repeat count after this call's update
MoveRepeat(a, direction, elapsed) ==
    LET same_direction == IsSome(a.last_move_direction)
                          /\ Unwrap(a.last_move_direction) = direction
    IN  IF elapsed < REPEAT_WINDOW_MS /\ same_direction
        THEN a.move_repeat_count + 1
        ELSE 0

\* a clamp of x alone
ClampPos_x_only(p) == <<Max2(p[1], 0), p[2]>>

\* the clamp of move_monitor: .max(0) on both coordinates
ClampPos(p) == <<Max2(p[1], 0), Max2(p[2], 0)>>

\* the candidate position of the mover: one step from cur, clamped
MoveTarget(cur, direction, step) ==
    ClampPos(CASE direction = "Left"  -> <<cur[1] - step, cur[2]>>
               [] direction = "Right" -> <<cur[1] + step, cur[2]>>
               [] direction = "Up"    -> <<cur[1], cur[2] - step>>
               [] direction = "Down"  -> <<cur[1], cur[2] + step>>)

\* a search that returns the last of the monitors in the way
Collided_last_match(a, new, sel_dim) ==
    LET hits == {i \in Indices(a.monitors) :
                    /\ i /= a.selected_monitor
                    /\ Get(a.monitors, i).enabled
                    /\ LET mp == display_position(a, i)
                           md == effective_dimensions(Get(a.monitors, i))
                       IN  Overlaps(new[1], new[2], sel_dim[1], sel_dim[2],
                                    mp[1], mp[2], md[1], md[2])}
    IN  IF hits = {} THEN None ELSE Some(SetMax(hits))

\* the first monitor, in list order, that is enabled, is not the selected
\* one and whose displayed rectangle overlaps the candidate: Option<index>
Collided(a, new, sel_dim) ==
    LET hits == {i \in Indices(a.monitors) :
                    /\ i /= a.selected_monitor
                    /\ Get(a.monitors, i).enabled
                    /\ LET mp == display_position(a, i)
                           md == effective_dimensions(Get(a.monitors, i))
                       IN  Overlaps(new[1], new[2], sel_dim[1], sel_dim[2],
                                    mp[1], mp[2], md[1], md[2])}
    IN  IF hits = {} THEN None ELSE Some(SetMin(hits))

\* a swap that in every direction puts the obstruction where the mover was
\* and the mover beyond it
SwapPositions_to_start(direction, cur, sel_dim, other, other_dim) ==
    LET raw == CASE direction = "Left"  ->
                        << <<cur[1] - sel_dim[1], cur[2]>>, cur>>
                 [] direction = "Right" ->
                        << <<cur[1] + other_dim[1], cur[2]>>, cur>>
                 [] direction = "Up"    ->
                        << <<cur[1], cur[2] - sel_dim[2]>>, cur>>
                 [] direction = "Down"  ->
                        << <<cur[1], cur[2] + other_dim[2]>>, cur>>
    IN  <<ClampPos(raw[1]), ClampPos(raw[2])>>

\* the edge swap: <<the mover's new position, the obstruction's>>, clamped
SwapPositions(direction, cur, sel_dim, other, other_dim) ==
    LET raw == CASE direction = "Left"  ->
                        <<other, <<other[1] + sel_dim[1], other[2]>> >>
                 [] direction = "Right" ->
                        << <<cur[1] + other_dim[1], cur[2]>>, cur>>
                 [] direction = "Up"    ->
                        <<other, <<other[1], other[2] + sel_dim[2]>> >>
                 [] direction = "Down"  ->
                        << <<cur[1], cur[2] + other_dim[2]>>, cur>>
    IN  <<ClampPos(raw[1]), ClampPos(raw[2])>>

\* elapsed: the milliseconds since last_move_time when the call is made
move_monitor(a, direction, elapsed) ==
    IF a.selected_monitor \notin Indices(a.monitors) THEN a
    ELSE IF ~Get(a.monitors, a.selected_monitor).enabled THEN a
    ELSE LET selected == Get(a.monitors, a.selected_monitor)
             count    == MoveRepeat(a, direction, elapsed)
             step     == 1 + count * 2
             cur      == display_position(a, a.selected_monitor)
             sel_dim  == effective_dimensions(selected)
             new      == MoveTarget(cur, direction, step)
             collided == Collided(a, new, sel_dim)
             b == [a EXCEPT !.move_repeat_count = count,
                            !.last_move_direction = Some(direction)]
         IN  IF IsSome(collided)
             THEN LET other_idx == Unwrap(collided)
                      swap == SwapPositions(direction, cur, sel_dim,
                                  display_position(a, other_idx),
                                  effective_dimensions(Get(a.monitors, other_idx)))
                  IN  [b EXCEPT !.pending_positions =
                          Insert(Insert(@, a.selected_monitor, swap[1]),
                                 other_idx, swap[2])]
             ELSE [b EXCEPT !.pending_positions = Insert(@, a.selected_monitor, new)]

\* order: the order in which the HashMap yields its keys
RECURSIVE apply_positions(_, _)
apply_positions(a, order) ==
    IF order = << >> THEN a
    ELSE LET idx == Head(order)
             pos == a.pending_positions[idx]
             b   == IF idx \in Indices(a.monitors)
                    THEN Send(a, [type |-> "SetPosition",
                                  name |-> Get(a.monitors, idx).name,
                                  x |-> pos[1], y |-> pos[2]])
                    ELSE a
         IN  apply_positions(b, Tail(order))

reset_positions(a) == [a EXCEPT !.pending_positions = EmptyMap]

apply_mode(a) ==
    IF a.selected_monitor \notin Indices(a.monitors) \/ ~IsSome(a.mode_state) THEN a
    ELSE LET monitor == Get(a.monitors, a.selected_monitor)
         IN  IF Unwrap(a.mode_state) \notin Indices(monitor.modes) THEN a
             ELSE LET mode == Get(monitor.modes, Unwrap(a.mode_state))
                  IN  Send(a, [type |-> "SwitchMode", name |-> monitor.name,
                               width |-> mode.resolution.width,
                               height |-> mode.resolution.height,
                               refresh_rate |-> mode.refresh_rate])

apply_scale(a) ==
    IF a.selected_monitor \notin Indices(a.monitors) THEN a
    ELSE Send(a, [type |-> "SetScale",
                  name |-> Get(a.monitors, a.selected_monitor).name,
                  scale |-> a.pending_scale])

apply_transform(a) ==
    IF a.selected_monitor \notin Indices(a.monitors) \/ ~IsSome(a.transform_state) THEN a
    ELSE IF Unwrap(a.transform_state) \notin Indices(TRANSFORMS) THEN a
    ELSE Send(a, [type |-> "SetTransform",
                  name |-> Get(a.monitors, a.selected_monitor).name,
                  transform |-> Get(TRANSFORMS, Unwrap(a.transform_state))])

---------------------------------------------------------------------------
(* Workspaces *)

\* the indices of the enabled monitors, increasing
RECURSIVE EnabledFrom(_, _)
EnabledFrom(mons, i) ==
    IF i >= Len(mons) THEN << >>
    ELSE (IF Get(mons, i).enabled THEN <<i>> ELSE << >>) \o EnabledFrom(mons, i + 1)

EnabledIndices(mons) == EnabledFrom(mons, 0)

\* a cycle that wraps around the enabled monitors and never unassigns
CycleStep_wrapping(enabled, cur, forward) ==
    IF ~IsSome(cur)
    THEN IF forward THEN Some(enabled[1]) ELSE Some(enabled[Len(enabled)])
    ELSE LET pos == Position({k \in Indices(enabled) : LET i == Get(enabled, k) IN i = Unwrap(cur)})
         IN  IF ~IsSome(pos) THEN None
             ELSE LET p == Unwrap(pos)
                  IN  IF forward
                      THEN Some(Get(enabled, (p + 1) % Len(enabled)))
                      ELSE Some(Get(enabled, (p + Len(enabled) - 1) % Len(enabled)))

\* a cycle that restarts from the first enabled monitor when the assigned
\* monitor is not enabled
CycleStep_restarting(enabled, cur, forward) ==
    IF ~IsSome(cur)
    THEN IF forward THEN Some(enabled[1]) ELSE Some(enabled[Len(enabled)])
    ELSE LET pos == Position({k \in Indices(enabled) : LET i == Get(enabled, k) IN i = Unwrap(cur)})
         IN  IF ~IsSome(pos) THEN Some(enabled[1])
             ELSE LET p == Unwrap(pos)
                  IN  IF forward
                      THEN IF p + 1 >= Len(enabled) THEN None
                           ELSE Some(Get(enabled, p + 1))
                      ELSE IF p = 0 THEN None ELSE Some(Get(enabled, p - 1))


\* the match of cycle_workspace_monitor: the assignment after cur
CycleStep(enabled, cur, forward) ==
    IF ~IsSome(cur)
    THEN IF forward THEN Some(enabled[1]) ELSE Some(enabled[Len(enabled)])
    ELSE LET pos == Position({k \in Indices(enabled) : LET i == Get(enabled, k) IN i = Unwrap(cur)})
         IN  IF ~IsSome(pos) THEN None
             ELSE LET p == Unwrap(pos)
                  IN  IF forward
                      THEN IF p + 1 >= Len(enabled) THEN None
                           ELSE Some(Get(enabled, p + 1))
                      ELSE IF p = 0 THEN None ELSE Some(Get(enabled, p - 1))

\* a cycle that marks the state dirty and leaves the save to the loop
cycle_workspace_monitor_deferred(a, forward, write_ok) ==
    IF ~IsSome(a.workspace_state) THEN a
    ELSE IF Unwrap(a.workspace_state) \notin Indices(a.workspace_assignments) THEN a
    ELSE LET ws_idx  == Unwrap(a.workspace_state)
             enabled == EnabledIndices(a.monitors)
         IN  IF enabled = << >> THEN a
             ELSE [a EXCEPT !.workspace_assignments[ws_idx + 1].monitor_idx =
                                CycleStep(enabled, @, forward),
                            !.needs_save = TRUE]

\* App::cycle_workspace_monitor
cycle_workspace_monitor(a, forward, write_ok) ==
    IF ~IsSome(a.workspace_state) THEN a
    ELSE IF Unwrap(a.workspace_state) \notin Indices(a.workspace_assignments) THEN a
    ELSE LET ws_idx  == Unwrap(a.workspace_state)
             enabled == EnabledIndices(a.monitors)
         IN  IF enabled = << >> THEN a
             ELSE save_config(
                      [a EXCEPT !.workspace_assignments[ws_idx + 1].monitor_idx =
                                    CycleStep(enabled, @, forward),
                                !.needs_save = TRUE],
                      write_ok)

---------------------------------------------------------------------------
(* Panels: the methods the keys call *)

\* a panel order that leaves the Workspaces panel out of the cycle
toggle_panel_skipping(a) ==
    [a EXCEPT !.panel = CASE @ = "Map"        -> "Modes"
                          [] @ = "Modes"      -> "Scale"
                          [] @ = "Workspaces" -> "Scale"
                          [] @ = "Scale"      -> "Transform"
                          [] @ = "Transform"  -> "Map"]


toggle_panel(a) ==
    [a EXCEPT !.panel = CASE @ = "Map"        -> "Modes"
                          [] @ = "Modes"      -> "Workspaces"
                          [] @ = "Workspaces" -> "Scale"
                          [] @ = "Scale"      -> "Transform"
                          [] @ = "Transform"  -> "Map"]

\* a cursor that steps past the last entry instead of wrapping
CursorNext_unwrapped(cursor, len) ==
    IF IsSome(cursor) THEN Some(Unwrap(cursor) + 1) ELSE Some(0)


\* the cursor moves of next and previous over a list of len entries
CursorNext(cursor, len) == IF IsSome(cursor) THEN Some((Unwrap(cursor) + 1) % len) ELSE Some(0)

CursorPrev(cursor, len) ==
    IF IsSome(cursor)
    THEN Some(IF Unwrap(cursor) = 0 THEN len - 1 ELSE Unwrap(cursor) - 1)
    ELSE Some(0)

\* the length of the selected monitor's mode list, 0 without a selected monitor
ModesLen(a) ==
    IF a.selected_monitor \in Indices(a.monitors)
    THEN Len(Get(a.monitors, a.selected_monitor).modes)
    ELSE 0

next(a, elapsed) ==
    CASE a.panel = "Modes" ->
            IF ModesLen(a) = 0 THEN a
            ELSE [a EXCEPT !.mode_state = CursorNext(@, ModesLen(a))]
      [] a.panel = "Map" -> move_monitor(a, "Down", elapsed)
      [] a.panel = "Scale" -> scale_up(a)
      [] a.panel = "Transform" ->
            [a EXCEPT !.transform_state = CursorNext(@, Len(TRANSFORMS))]
      [] a.panel = "Workspaces" ->
            IF Len(a.workspace_assignments) = 0 THEN a
            ELSE [a EXCEPT !.workspace_state =
                               CursorNext(@, Len(a.workspace_assignments))]

previous(a, elapsed) ==
    CASE a.panel = "Modes" ->
            IF ModesLen(a) = 0 THEN a
            ELSE [a EXCEPT !.mode_state = CursorPrev(@, ModesLen(a))]
      [] a.panel = "Map" -> move_monitor(a, "Up", elapsed)
      [] a.panel = "Scale" -> scale_down(a)
      [] a.panel = "Transform" ->
            [a EXCEPT !.transform_state = CursorPrev(@, Len(TRANSFORMS))]
      [] a.panel = "Workspaces" ->
            IF Len(a.workspace_assignments) = 0 THEN a
            ELSE [a EXCEPT !.workspace_state =
                               CursorPrev(@, Len(a.workspace_assignments))]

nav_left(a, elapsed, write_ok) ==
    CASE a.panel = "Map" -> move_monitor(a, "Left", elapsed)
      [] a.panel = "Scale" -> scale_down(a)
      [] a.panel = "Workspaces" -> cycle_workspace_monitor(a, FALSE, write_ok)
      [] OTHER -> a

nav_right(a, elapsed, write_ok) ==
    CASE a.panel = "Map" -> move_monitor(a, "Right", elapsed)
      [] a.panel = "Scale" -> scale_up(a)
      [] a.panel = "Workspaces" -> cycle_workspace_monitor(a, TRUE, write_ok)
      [] OTHER -> a

\* order: the iteration order of pending_positions (used in the Map panel)
apply_action(a, order, write_ok) ==
    CASE a.panel = "Modes" -> [apply_mode(a) EXCEPT !.needs_save = TRUE]
      [] a.panel = "Scale" -> [apply_scale(a) EXCEPT !.needs_save = TRUE]
      [] a.panel = "Transform" -> [apply_transform(a) EXCEPT !.needs_save = TRUE]
      [] a.panel = "Map" ->
            IF DOMAIN a.pending_positions = {} THEN a
            ELSE [apply_positions(a, order) EXCEPT !.pending_positions = EmptyMap,
                                                   !.needs_save = TRUE]
      [] a.panel = "Workspaces" -> cycle_workspace_monitor(a, TRUE, write_ok)

---------------------------------------------------------------------------
(* One call of a method *)

\* the App value a call starts from: the effects log restarts
Begin == [St EXCEPT !.io = << >>]

\* the fields of the App value before a call that the properties read
Before(a) ==
    [monitors |-> a.monitors,
     selected_monitor |-> a.selected_monitor,
     mode_state |-> a.mode_state,
     transform_state |-> a.transform_state,
     pending_scale |-> a.pending_scale,
     pending_positions |-> a.pending_positions,
     panel |-> a.panel,
     needs_save |-> a.needs_save,
     pending_toggle_warning |-> a.pending_toggle_warning,
     workspace_assignments |-> a.workspace_assignments,
     workspace_state |-> a.workspace_state,
     last_move_direction |-> a.last_move_direction,
     move_repeat_count |-> a.move_repeat_count,
     controller |-> a.controller,
     file |-> a.file]

\* the variables take the fields of the App value new
Install(new) ==
    /\ monitors' = new.monitors
    /\ selected_monitor' = new.selected_monitor
    /\ mode_state' = new.mode_state
    /\ transform_state' = new.transform_state
    /\ pending_scale' = new.pending_scale
    /\ pending_positions' = new.pending_positions
    /\ panel' = new.panel
    /\ needs_save' = new.needs_save
    /\ pending_toggle_warning' = new.pending_toggle_warning
    /\ workspace_assignments' = new.workspace_assignments
    /\ workspace_state' = new.workspace_state
    /\ initial_workspace_names' = new.initial_workspace_names
    /\ last_move_direction' = new.last_move_direction
    /\ move_repeat_count' = new.move_repeat_count
    /\ compositor' = new.compositor
    /\ monitor_config_path' = new.monitor_config_path
    /\ controller' = new.controller
    /\ file' = new.file
    /\ io' = new.io

\* what prev and op hold after a call that is not recorded
NoPrev == [monitors |-> << >>]

NoOp == [name |-> "", args |-> << >>, tr |-> FALSE]

\* A method runs to completion.  In the method-level specifications the
\* worker keeps up with the UI: a key is handled once the worker has taken
\* the requests of the key before, so every send finds room in the action
\* channel (SpecChannels models a worker that falls behind and a send that
\* waits).  Calls are explored within the bounds MaxRepeat and MaxCoord.
\* tr: the call is recorded with its arguments and the App value before it.
Call(name, args, new, tr) ==
    \E after \in {new} :
        /\ controller = << >>
        /\ Len(after.controller) <= ChannelCap
        /\ after.move_repeat_count <= MaxRepeat
        /\ \A i \in DOMAIN after.pending_positions :
               /\ after.pending_positions[i][1] <= MaxCoord
               /\ after.pending_positions[i][2] <= MaxCoord
        /\ Install(after)
        /\ op' = IF tr THEN [name |-> name, args |-> args, tr |-> TRUE] ELSE NoOp
        /\ prev' = IF tr THEN Before(St) ELSE NoPrev

\* the state after App::new, before any call
InitApp(new) ==
  \E a \in {new} :
    /\ monitors = a.monitors
    /\ selected_monitor = a.selected_monitor
    /\ mode_state = a.mode_state
    /\ transform_state = a.transform_state
    /\ pending_scale = a.pending_scale
    /\ pending_positions = a.pending_positions
    /\ panel = a.panel
    /\ needs_save = a.needs_save
    /\ pending_toggle_warning = a.pending_toggle_warning
    /\ workspace_assignments = a.workspace_assignments
    /\ workspace_state = a.workspace_state
    /\ initial_workspace_names = a.initial_workspace_names
    /\ last_move_direction = a.last_move_direction
    /\ move_repeat_count = a.move_repeat_count
    /\ compositor = a.compositor
    /\ monitor_config_path = a.monitor_config_path
    /\ controller = a.controller
    /\ file = a.file
    /\ io = a.io
    /\ op = NoOp
    /\ prev = NoPrev

---------------------------------------------------------------------------
(* Method-level actions: one pass of the run loop that handles one          *)
(* notification or one key.  A notification is handled when the worker      *)
(* sends it: the snapshot comes first and once (the worker goes from        *)
(* "start" to "run"), changes and removals after it; the pass ends with     *)
(* save_config, as every pass that took a notification does.  A key is      *)
(* dispatched to its method; while the last-monitor warning is shown 'y'    *)
(* confirms the toggle and any other key dismisses the warning.             *)

SetMonitors(Snapshots, WriteOk, tr) ==
    /\ worker = "start"
    /\ \E mons \in Snapshots, w \in WriteOk :
           Call("set_monitors", <<mons, w>>,
                save_config(set_monitors(Begin, mons), w), tr)
    /\ worker' = "run"
    /\ UNCHANGED <<event_rx, ui>>

UpdateMonitor(Values, WriteOk, tr) ==
    /\ worker = "run"
    /\ \E m \in Values, w \in WriteOk :
           Call("update_monitor", <<m, w>>,
                save_config(update_monitor(Begin, m), w), tr)
    /\ UNCHANGED <<event_rx, ui, worker>>

RemoveMonitor(Names, WriteOk, tr) ==
    /\ worker = "run"
    /\ \E n \in Names, w \in WriteOk :
           Call("remove_monitor", <<n, w>>,
                save_config(remove_monitor(Begin, n), w), tr)
    /\ UNCHANGED <<event_rx, ui, worker>>

SelectNextMonitor(tr) ==
    /\ ~pending_toggle_warning
    /\ Call("select_next_monitor", << >>, select_next_monitor(Begin), tr)
    /\ UNCHANGED <<event_rx, ui, worker>>

SelectPrevMonitor(tr) ==
    /\ ~pending_toggle_warning
    /\ Call("select_prev_monitor", << >>, select_prev_monitor(Begin), tr)
    /\ UNCHANGED <<event_rx, ui, worker>>

TogglePanel(tr) ==
    /\ ~pending_toggle_warning
    /\ Call("toggle_panel", << >>, toggle_panel(Begin), tr)
    /\ UNCHANGED <<event_rx, ui, worker>>

KeyNext(Elapsed, tr) ==
    /\ ~pending_toggle_warning
    /\ \E e \in Elapsed : Call("next", <<e>>, next(Begin, e), tr)
    /\ UNCHANGED <<event_rx, ui, worker>>

KeyPrevious(Elapsed, tr) ==
    /\ ~pending_toggle_warning
    /\ \E e \in Elapsed : Call("previous", <<e>>, previous(Begin, e), tr)
    /\ UNCHANGED <<event_rx, ui, worker>>

NavLeft(Elapsed, WriteOk, tr) ==
    /\ ~pending_toggle_warning
    /\ \E e \in Elapsed, w \in WriteOk :
           Call("nav_left", <<e, w>>, nav_left(Begin, e, w), tr)
    /\ UNCHANGED <<event_rx, ui, worker>>

NavRight(Elapsed, WriteOk, tr) ==
    /\ ~pending_toggle_warning
    /\ \E e \in Elapsed, w \in WriteOk :
           Call("nav_right", <<e, w>>, nav_right(Begin, e, w), tr)
    /\ UNCHANGED <<event_rx, ui, worker>>

ApplyAction(WriteOk, tr) ==
    /\ ~pending_toggle_warning
    /\ \E order \in Orderings(DOMAIN pending_positions), w \in WriteOk :
           Call("apply_action", <<order, w>>, apply_action(Begin, order, w), tr)
    /\ UNCHANGED <<event_rx, ui, worker>>

ResetPositions(tr) ==
    /\ ~pending_toggle_warning
    /\ Call("reset_positions", << >>, reset_positions(Begin), tr)
    /\ UNCHANGED <<event_rx, ui, worker>>

\* 't', or 'y' while the warning is shown
ToggleMonitor(Saved, tr) ==
    /\ \E sp \in Saved : Call("toggle_monitor", <<sp>>, toggle_monitor(Begin, sp), tr)
    /\ UNCHANGED <<event_rx, ui, worker>>

\* any key but 'y' while the warning is shown
DismissWarning(tr) ==
    /\ pending_toggle_warning
    /\ Call("dismiss_warning", << >>, dismiss_warning(Begin), tr)
    /\ UNCHANGED <<event_rx, ui, worker>>

\* '+' or '=' outside the Map panel (in the Map panel the key zooms the
\* drawing); Within: the scales the exploration follows
ScaleUp(Within, tr) ==
    /\ ~pending_toggle_warning
    /\ panel /= "Map"
    /\ scale_up(Begin).pending_scale \in Within
    /\ Call("scale_up", << >>, scale_up(Begin), tr)
    /\ UNCHANGED <<event_rx, ui, worker>>

\* '-' outside the Map panel
ScaleDown(Within, tr) ==
    /\ ~pending_toggle_warning
    /\ panel /= "Map"
    /\ scale_down(Begin).pending_scale \in Within
    /\ Call("scale_down", << >>, scale_down(Begin), tr)
    /\ UNCHANGED <<event_rx, ui, worker>>

\* the worker takes the oldest request out of the action channel
WorkerRecv ==
    /\ worker /= "send"
    /\ controller /= << >>
    /\ controller' = Tail(controller)
    /\ op' = NoOp
    /\ prev' = NoPrev
    /\ UNCHANGED <<monitors, selected_monitor, mode_state, transform_state,
                   pending_scale, pending_positions, panel, needs_save,
                   pending_toggle_warning, workspace_assignments, workspace_state,
                   initial_workspace_names, last_move_direction, move_repeat_count,
                   compositor, monitor_config_path, file, io,
                   event_rx, ui, worker>>

\* the configurations the specifications start from: a compositor whose save
\* leaves the file alone, and the path of the monitor file
Configs == {<<"Unknown", "monitors.conf">>}

\* the panel after n presses of Tab on a new App
RECURSIVE Tabbed(_, _)
Tabbed(a, n) == IF n = 0 THEN a ELSE Tabbed(toggle_panel(a), n - 1)

---------------------------------------------------------------------------
(* SpecArrangement: notifications, selection and the Workspaces panel.      *)
(* The App is new and the user has tabbed to the Workspaces panel; monitors *)
(* A, B and C come and go, enabled or not.  The config is one the save      *)
(* leaves the file alone with (an unknown compositor): the methods of this  *)
(* specification read nothing of the file.  The calls whose effect the      *)
(* properties state (change, removal, cycling) are recorded with their      *)
(* pre-state.                                                               *)

ArrMonitor(name, enabled) ==
    CASE name = "A" -> Monitor("A", enabled, 0, 0, 100, 0, <<Mode(2, 1, 60, TRUE, TRUE)>>)
      [] name = "B" -> Monitor("B", enabled, 2, 0, 100, 0, <<Mode(2, 1, 60, TRUE, TRUE)>>)
      [] name = "C" -> Monitor("C", enabled, 4, 0, 100, 0, <<Mode(2, 1, 60, TRUE, TRUE)>>)

ArrNames == {"A", "B", "C"}

\* change notifications are for the external monitors B and C; the built-in
\* panel A is as the snapshot reported it
ArrValues == {ArrMonitor(n, e) : n \in {"B", "C"}, e \in BOOLEAN}

ArrSnapshots ==
    {<< >>,
     <<ArrMonitor("A", TRUE)>>,
     <<ArrMonitor("A", TRUE), ArrMonitor("B", FALSE)>>,
     <<ArrMonitor("A", TRUE), ArrMonitor("B", TRUE), ArrMonitor("C", TRUE)>>,
     <<ArrMonitor("A", FALSE), ArrMonitor("B", TRUE), ArrMonitor("C", TRUE)>>}

ArrSavedNames == {<< <<1, "B">>, <<2, "D">> >>}

InitArrangement ==
    /\ \E c \in Configs, names \in ArrSavedNames :
           InitApp(Tabbed(New(c[1], c[2], names, None), 2))
    /\ event_rx = << >>
    /\ ui = "poll"
    /\ worker = "start"

NextArrangement ==
    \/ SetMonitors(ArrSnapshots, {TRUE}, FALSE)
    \/ UpdateMonitor(ArrValues, {TRUE}, TRUE)
    \/ RemoveMonitor(ArrNames, {TRUE}, TRUE)
    \/ SelectNextMonitor(FALSE)
    \/ SelectPrevMonitor(FALSE)
    \/ KeyNext({0}, FALSE)
    \/ KeyPrevious({0}, FALSE)
    \/ NavLeft({0}, {TRUE}, TRUE)
    \/ NavRight({0}, {TRUE}, TRUE)
    \/ ApplyAction({TRUE}, FALSE)

SpecArrangement == InitArrangement /\ [][NextArrangement]_vars

---------------------------------------------------------------------------
(* SpecMove: the Map panel.  The App is new (the Map panel is the initial   *)
(* one); monitors A and B, both of effective size 2x1, are reported side by *)
(* side (B at a negative x), stacked, or apart; B changes, is disabled and  *)
(* is removed.  The keys move the selected monitor, Enter commits and 'r'   *)
(* resets.  Commits and resets are recorded with their pre-state.           *)

MoveMonitorA(x, y) == Monitor("A", TRUE, x, y, 100, 0, <<Mode(2, 1, 60, TRUE, TRUE)>>)

\* B's mode is 1x2 and its transform Rotate90: its effective size is 2x1
MoveMonitorB(enabled, x, y) ==
    Monitor("B", enabled, x, y, 100, 1, <<Mode(1, 2, 60, TRUE, TRUE)>>)

MoveSnapshots ==
    {<<MoveMonitorA(1, 0), MoveMonitorB(TRUE, -1, 0)>>,
     <<MoveMonitorA(0, 0), MoveMonitorB(TRUE, 0, 1)>>}

MoveValues == {MoveMonitorB(TRUE, 2, 0), MoveMonitorB(FALSE, 2, 0)}

\* the milliseconds between two moves: within the repeat window and not
MoveElapsed == {0, 200}

InitMove ==
    /\ \E c \in Configs : InitApp(New(c[1], c[2], << >>, None))
    /\ event_rx = << >>
    /\ ui = "poll"
    /\ worker = "start"

NextMove ==
    \/ SetMonitors(MoveSnapshots, {TRUE}, FALSE)
    \/ UpdateMonitor(MoveValues, {TRUE}, FALSE)
    \/ RemoveMonitor({"B"}, {TRUE}, FALSE)
    \/ SelectNextMonitor(FALSE)
    \/ KeyNext(MoveElapsed, FALSE)
    \/ KeyPrevious(MoveElapsed, FALSE)
    \/ NavLeft(MoveElapsed, {TRUE}, FALSE)
    \/ NavRight(MoveElapsed, {TRUE}, FALSE)
    \/ ApplyAction({TRUE}, TRUE)
    \/ ResetPositions(TRUE)
    \/ WorkerRecv

SpecMove == InitMove /\ [][NextMove]_vars

---------------------------------------------------------------------------
(* SpecCollide: single moves in the Map panel.  The arrangements of         *)
(* SpecMove, and one more in which B is 1x1 and its mirror C, 2x1, is        *)
(* reported at B's place, so that a move of A to the right runs into both;  *)
(* the moves are followed while one of the three monitors stays where it    *)
(* was reported.  B is reported disabled at times.  Every move is recorded  *)
(* with its key, the time since the last move and its pre-state.            *)

NextCollide ==
    \/ SetMonitors(MoveSnapshots \cup
                       {<<MoveMonitorA(0, 0),
                          Monitor("B", TRUE, 2, 0, 100, 0, <<Mode(1, 1, 60, TRUE, TRUE)>>),
                          Monitor("C", TRUE, 2, 0, 100, 0, <<Mode(2, 1, 60, TRUE, TRUE)>>)>>},
                   {TRUE}, FALSE)
    \/ UpdateMonitor({MoveMonitorB(FALSE, 2, 0)}, {TRUE}, FALSE)
    \/ SelectNextMonitor(FALSE)
    \/ (KeyNext(MoveElapsed, TRUE) /\ Cardinality(DOMAIN pending_positions') < 3)
    \/ (KeyPrevious(MoveElapsed, TRUE) /\ Cardinality(DOMAIN pending_positions') < 3)
    \/ (NavLeft(MoveElapsed, {TRUE}, TRUE) /\ Cardinality(DOMAIN pending_positions') < 3)
    \/ (NavRight(MoveElapsed, {TRUE}, TRUE) /\ Cardinality(DOMAIN pending_positions') < 3)

SpecCollide == InitMove /\ [][NextCollide]_vars

---------------------------------------------------------------------------
(* SpecPanels: the five panels, the selection and the cursors of the Modes  *)
(* and Transform panels.  The compositor reports monitors whose current     *)
(* mode is the first of the list (B), a later one (A) or none (B after a    *)
(* change), with different scales and transforms, and a monitor without     *)
(* modes (C).  next and previous are followed in the Modes and Transform    *)
(* panels, where they move a cursor.  Every call is recorded with its       *)
(* pre-state.                                                               *)

PanelSnapshots ==
    LET a == Monitor("A", TRUE, 0, 0, 100, 0,
                     <<Mode(1, 1, 60, FALSE, TRUE), Mode(2, 1, 60, TRUE, FALSE)>>)
        b == Monitor("B", TRUE, 2, 0, 200, 3,
                     <<Mode(2, 1, 60, TRUE, TRUE), Mode(1, 1, 60, FALSE, FALSE),
                       Mode(1, 1, 30, FALSE, FALSE)>>)
        c == Monitor("C", FALSE, 0, 0, 150, 5, << >>)
    IN  [snapshots |-> {<<a, b>>, <<b, c, a>>},
         values |-> {Monitor("B", TRUE, 2, 0, 100, 6, <<Mode(1, 1, 60, FALSE, TRUE)>>),
                     Monitor("A", TRUE, 0, 0, 100, 0,
                             <<Mode(1, 1, 60, TRUE, TRUE), Mode(2, 1, 60, FALSE, FALSE)>>)}]

NextPanels ==
    \/ SetMonitors(PanelSnapshots.snapshots, {TRUE}, TRUE)
    \/ UpdateMonitor(PanelSnapshots.values, {TRUE}, TRUE)
    \/ RemoveMonitor({"C"}, {TRUE}, TRUE)
    \/ SelectNextMonitor(TRUE)
    \/ SelectPrevMonitor(TRUE)
    \/ TogglePanel(TRUE)
    \/ (panel \in {"Modes", "Transform"} /\ KeyNext({0}, TRUE))
    \/ (panel \in {"Modes", "Transform"} /\ KeyPrevious({0}, TRUE))
    \/ (panel \in {"Modes", "Scale", "Transform"} /\ ApplyAction({TRUE}, TRUE))
    \/ WorkerRecv

SpecPanels == InitMove /\ [][NextPanels]_vars


---------------------------------------------------------------------------
(* SpecScale: the Scale panel.  The App is new and the user has tabbed to   *)
(* the Scale panel; the compositor reports monitors whose scale is within   *)
(* the limits of the scale keys, at a limit, below the lower one (0.25) and *)
(* above the upper one (12.0).  '+' and '-' adjust the pending scale, Enter *)
(* sends it.  The scale keys are recorded with their pre-state.             *)

ScaleMonitor(name, scale) ==
    Monitor(name, TRUE, 0, 0, scale, 0, <<Mode(2, 1, 60, TRUE, TRUE)>>)

\* the reported scales, in hundredths
ScaleReported == {25, 100, 1000, 1200}

ScaleSnapshots ==
    {<<ScaleMonitor("A", 100)>>,
     <<ScaleMonitor("A", 25), ScaleMonitor("B", 1000)>>,
     <<ScaleMonitor("A", 1200), ScaleMonitor("B", 25)>>}

ScaleValues == {ScaleMonitor("B", sc) : sc \in ScaleReported}

\* the scales within MaxScaleSteps key presses of a reported scale or a limit
ScaleWithin ==
    UNION {(v - MaxScaleSteps) .. (v + MaxScaleSteps) :
              v \in ScaleReported \cup {ScaleMin, ScaleMax}}

InitScale ==
    /\ \E c \in Configs : InitApp(Tabbed(New(c[1], c[2], << >>, None), 3))
    /\ event_rx = << >>
    /\ ui = "poll"
    /\ worker = "start"

NextScale ==
    \/ SetMonitors(ScaleSnapshots, {TRUE}, FALSE)
    \/ UpdateMonitor(ScaleValues, {TRUE}, FALSE)
    \/ RemoveMonitor({"B"}, {TRUE}, FALSE)
    \/ SelectNextMonitor(FALSE)
    \/ SelectPrevMonitor(FALSE)
    \/ ScaleUp(ScaleWithin, TRUE)
    \/ ScaleDown(ScaleWithin, TRUE)
    \/ ApplyAction({TRUE}, FALSE)
    \/ WorkerRecv

SpecScale == InitScale /\ [][NextScale]_vars

---------------------------------------------------------------------------
(* SpecToggle: enabling and disabling.  Monitors A (2x1), B (2x1) and C     *)
(* (1x2, rotated: 2x1) are reported in a row, stacked, or alone; each is    *)
(* reported enabled or disabled.  't' toggles the selected monitor; the     *)
(* position saved for it in the file is any of TogSaved.  The toggles are   *)
(* recorded with their pre-state and the saved position they read.          *)

TogMonitor(name, enabled, x, y) ==
    IF name = "C"
    THEN Monitor("C", enabled, x, y, 100, 1, <<Mode(1, 2, 60, TRUE, TRUE)>>)
    ELSE Monitor(name, enabled, x, y, 100, 0, <<Mode(2, 1, 60, TRUE, TRUE)>>)

TogSnapshots ==
    {<<TogMonitor("A", FALSE, 0, 0)>>,
     <<TogMonitor("A", TRUE, 0, 0), TogMonitor("B", FALSE, 0, 0)>>,
     <<TogMonitor("A", TRUE, 1, 1), TogMonitor("B", TRUE, 3, 1),
       TogMonitor("C", FALSE, 0, 0)>>,
     <<TogMonitor("A", TRUE, 0, 0), TogMonitor("B", TRUE, 0, 1),
       TogMonitor("C", FALSE, 0, 0)>>}

TogValues ==
    {TogMonitor("B", TRUE, 2, 0), TogMonitor("B", FALSE, 2, 0),
     TogMonitor("C", TRUE, 0, 2), TogMonitor("A", FALSE, 0, 0)}

\* what get_saved_monitor_position returns: no position, or one of these
TogSaved ==
    {None} \cup {Some(<<x, y>>) : x \in -1 .. MaxSaved, y \in 0 .. 2}

InitToggle ==
    /\ \E c \in Configs : InitApp(New(c[1], c[2], << >>, None))
    /\ event_rx = << >>
    /\ ui = "poll"
    /\ worker = "start"

NextToggle ==
    \/ SetMonitors(TogSnapshots, {TRUE}, FALSE)
    \/ UpdateMonitor(TogValues, {TRUE}, FALSE)
    \/ RemoveMonitor({"B"}, {TRUE}, FALSE)
    \/ SelectNextMonitor(FALSE)
    \/ ToggleMonitor(TogSaved, TRUE)
    \/ DismissWarning(FALSE)
    \/ WorkerRecv

SpecToggle == InitToggle /\ [][NextToggle]_vars

---------------------------------------------------------------------------
(* SpecChannels: the two threads over the two bounded channels.  The UI     *)
(* thread runs the loop of run: it drains the notification channel with     *)
(* try_recv (and saves if it took any), draws, polls the keyboard for 50 ms *)
(* and handles the key, here 't' on the selected monitor.  The worker       *)
(* thread sends the snapshot, then takes requests off the action channel    *)
(* and sends change notifications as the compositor reports them.  Both     *)
(* channels are sync_channel(16): a send on a full channel waits until the  *)
(* other thread takes a message.  ui is "drain" (in the try_recv loop,      *)
(* nothing taken yet), "drained" (in it, had_events set), "poll" or "send"  *)
(* (waiting in controller.send); worker is "start", "run" or "send"         *)
(* (waiting in the send of a notification).                                 *)

ChanMonitor(name, x) ==
    Monitor(name, TRUE, x, 0, 100, 0, <<Mode(2, 1, 60, TRUE, TRUE)>>)

ChanSnapshots == {<<ChanMonitor("A", 0), ChanMonitor("B", 2)>>}

ChanValues == {ChanMonitor("A", 0)}

ChanSaved == {None}

\* a drain loop that on a failure also drops the uncommitted moves
HandleEvent_dropping_moves(a, ev) ==
    CASE ev.type = "InitialState" -> set_monitors(a, ev.monitors)
      [] ev.type = "Changed"      -> update_monitor(a, ev.monitor)
      [] ev.type = "Removed"      -> remove_monitor(a, ev.name)
      [] ev.type = "ActionFailed" -> [a EXCEPT !.needs_save = FALSE,
                                               !.pending_positions = EmptyMap]

\* the match on the notification in the drain loop of run
HandleEvent(a, ev) ==
    CASE ev.type = "InitialState" -> set_monitors(a, ev.monitors)
      [] ev.type = "Changed"      -> update_monitor(a, ev.monitor)
      [] ev.type = "Removed"      -> remove_monitor(a, ev.name)
      [] ev.type = "ActionFailed" -> [a EXCEPT !.needs_save = FALSE]

\* the variables take the fields of new; the step is not recorded: op and
\* prev keep the last recorded call
ChanInstall(new) ==
    \E after \in {new} :
        /\ Install(after)
        /\ UNCHANGED <<op, prev>>

\* try_recv returns a notification: it is handled and had_events is set
UiRecv ==
    /\ ui \in {"drain", "drained"}
    /\ event_rx /= << >>
    /\ ChanInstall(HandleEvent(Begin, Head(event_rx)))
    /\ event_rx' = Tail(event_rx)
    /\ ui' = "drained"
    /\ UNCHANGED worker

\* try_recv finds the channel empty: save_config if a notification was
\* handled in this pass, then the draw and the poll
UiDrainEnd(WriteOk) ==
    /\ ui \in {"drain", "drained"}
    /\ event_rx = << >>
    /\ \E w \in WriteOk :
           ChanInstall(IF ui = "drained" THEN save_config(Begin, w) ELSE Begin)
    /\ ui' = "poll"
    /\ UNCHANGED <<event_rx, worker>>

\* event::poll returns without a key
UiPollTimeout ==
    /\ ui = "poll"
    /\ ui' = "drain"
    /\ UNCHANGED <<app_vars, event_rx, worker, op, prev>>

\* 't': toggle_monitor; its send returns at once when the action channel
\* has room and waits when it is full
UiKeyToggle(Saved) ==
    /\ ui = "poll"
    /\ \E sp \in Saved :
           \E after \in {toggle_monitor(Begin, sp)} :
               IF Len(after.controller) > ChannelCap
               THEN /\ ui' = "send"
                    /\ UNCHANGED <<app_vars, op, prev>>
               ELSE /\ ChanInstall(after)
                    /\ ui' = "drain"
    /\ UNCHANGED <<event_rx, worker>>

\* the worker took a request: the waiting send returns and the key's
\* handler completes
UiSendReturns(Saved) ==
    /\ ui = "send"
    /\ Len(controller) < ChannelCap
    /\ \E sp \in Saved : ChanInstall(toggle_monitor(Begin, sp))
    /\ ui' = "drain"
    /\ UNCHANGED <<event_rx, worker>>

\* the worker's first notification: the snapshot
WorkerStart(Snapshots) ==
    /\ worker = "start"
    /\ \E mons \in Snapshots :
           event_rx' = Append(event_rx, [type |-> "InitialState", monitors |-> mons])
    /\ worker' = "run"
    /\ UNCHANGED <<app_vars, ui, op, prev>>

\* the worker sends a change notification, and waits if the channel is full
WorkerEmit(Values) ==
    /\ worker = "run"
    /\ IF Len(event_rx) < ChannelCap
       THEN /\ \E m \in Values :
                   event_rx' = Append(event_rx, [type |-> "Changed", monitor |-> m])
            /\ worker' = "run"
       ELSE /\ worker' = "send"
            /\ UNCHANGED event_rx
    /\ UNCHANGED <<app_vars, ui, op, prev>>

\* the UI took notifications: the worker's waiting send returns
WorkerSendReturns(Values) ==
    /\ worker = "send"
    /\ Len(event_rx) < ChannelCap
    /\ \E m \in Values :
           event_rx' = Append(event_rx, [type |-> "Changed", monitor |-> m])
    /\ worker' = "run"
    /\ UNCHANGED <<app_vars, ui, op, prev>>

InitChannels ==
    /\ \E c \in Configs : InitApp(New(c[1], c[2], << >>, None))
    /\ event_rx = << >>
    /\ ui = "drain"
    /\ worker = "start"

NextChannels ==
    \/ UiRecv
    \/ UiDrainEnd({TRUE})
    \/ UiPollTimeout
    \/ UiKeyToggle(ChanSaved)
    \/ UiSendReturns(ChanSaved)
    \/ WorkerStart(ChanSnapshots)
    \/ WorkerEmit(ChanValues)
    \/ WorkerSendReturns(ChanValues)
    \/ WorkerRecv

SpecChannels == InitChannels /\ [][NextChannels]_vars

---------------------------------------------------------------------------
(* SpecPersist: the config file.  The compositor is any of the four and the *)
(* path is set or empty; a write succeeds or fails.  Monitors A and B are   *)
(* reported with their positions, scales, transforms and enabled flags; the *)
(* user is in the Map panel and moves and commits, or in the Workspaces     *)
(* panel and cycles assignments, and the worker reports changes and         *)
(* failures.  Each notification is one pass of   *)
(* the loop: the notification is handled and save_config follows.           *)

\* what the worker reports: the snapshots, the changed monitors, and the
\* notifications that wait in the channel when a pass of the loop begins
PersReports ==
    LET PersMonitor(name, enabled, x, scale, transform) ==
            Monitor(name, enabled, x, 0, scale, transform,
                    <<Mode(2, 1, 60, TRUE, TRUE)>>)
        FullHD(name, enabled) ==
            Monitor(name, enabled, 0, 0, 100, 0,
                    <<Mode(1920, 1080, 60, TRUE, TRUE)>>)
    IN  [snapshots |->
             {<<PersMonitor("A", TRUE, 0, 100, 0), PersMonitor("B", TRUE, 2, 150, 0)>>,
              <<PersMonitor("A", TRUE, 0, 100, 0), PersMonitor("B", FALSE, 2, 100, 1)>>,
              <<FullHD("A", TRUE)>>},
         values |->
             {PersMonitor("A", TRUE, 1, 100, 0), PersMonitor("B", TRUE, 2, 125, 1),
              PersMonitor("B", FALSE, 2, 100, 0), FullHD("A", FALSE)},
         queues |->
             {<<[type |-> "Changed", monitor |-> PersMonitor("B", TRUE, 2, 125, 1)]>>,
              <<[type |-> "Changed", monitor |-> PersMonitor("B", FALSE, 2, 100, 0)],
                [type |-> "ActionFailed"]>>,
              <<[type |-> "InitialState",
                 monitors |-> <<PersMonitor("A", TRUE, 0, 100, 0),
                                PersMonitor("B", FALSE, 2, 100, 1)>>],
                [type |-> "Changed", monitor |-> PersMonitor("A", TRUE, 1, 100, 0)]>>}]

\* one pass of the loop that takes a failure notification
ActionFailed(WriteOk, tr) ==
    /\ worker = "run"
    /\ \E w \in WriteOk :
           Call("action_failed", <<w>>,
                save_config(HandleEvent(Begin, [type |-> "ActionFailed"]), w), tr)
    /\ UNCHANGED <<event_rx, ui, worker>>

\* a pass of the loop that handles the key before it drains the channel
LoopPass_key_first(Queues, WriteOk, tr) ==
    /\ worker = "run"
    /\ ~pending_toggle_warning
    /\ \E queue \in Queues, w \in WriteOk :
           LET RECURSIVE drain(_, _)
               drain(a, q) ==
                   IF q = << >> THEN a
                   ELSE drain(HandleEvent(a, Head(q)), Tail(q))
           IN  Call("loop_pass", <<queue, w>>,
                    save_config(drain(nav_right(Begin, REPEAT_WINDOW_MS, w), queue), w),
                    tr)
    /\ UNCHANGED <<event_rx, ui, worker>>

\* one pass of the loop with notifications waiting and the Right key
\* pressed: try_recv takes the notifications in order until the channel is
\* empty, save_config follows, and then the key is handled
LoopPass(Queues, WriteOk, tr) ==
    /\ worker = "run"
    /\ \E queue \in Queues, w \in WriteOk :
           LET RECURSIVE drain(_, _)
               drain(a, q) ==
                   IF q = << >> THEN a
                   ELSE drain(HandleEvent(a, Head(q)), Tail(q))
               saved == save_config(drain(Begin, queue), w)
           IN  /\ ~saved.pending_toggle_warning
               /\ Call("loop_pass", <<queue, w>>,
                       nav_right(saved, REPEAT_WINDOW_MS, w), tr)
    /\ UNCHANGED <<event_rx, ui, worker>>

InitPersist ==
    /\ \E c \in {<<"Hyprland", "monitors.conf">>, <<"Sway", "outputs.conf">>,
                <<"River", "init">>, <<"Unknown", "monitors.conf">>,
                <<"Hyprland", "">>},
          tabs \in {0, 2} :
           InitApp(Tabbed(New(c[1], c[2], << >>, None), tabs))
    /\ event_rx = << >>
    /\ ui = "poll"
    /\ worker = "start"

NextPersist ==
    \/ SetMonitors(PersReports.snapshots, BOOLEAN, TRUE)
    \/ UpdateMonitor(PersReports.values, BOOLEAN, TRUE)
    \/ ActionFailed(BOOLEAN, TRUE)
    \/ NavRight({REPEAT_WINDOW_MS}, BOOLEAN, TRUE)
    \/ ApplyAction(BOOLEAN, TRUE)
    \/ LoopPass(PersReports.queues, BOOLEAN, TRUE)
    \/ WorkerRecv

SpecPersist == InitPersist /\ [][NextPersist]_vars

---------------------------------------------------------------------------
(* SpecReconcile: a commit and its change notifications, thread by thread.  *)
(* The UI thread runs the loop of run: it drains the notifications, saves   *)
(* if it handled one, and polls for a key.  The worker takes each request,  *)
(* the compositor applies it, and the worker answers with a change          *)
(* notification for the monitor: every request succeeds.  The worker also   *)
(* reports a change of B nobody asked the UI for.  The commit is recorded   *)
(* with its requests; the steps after it keep the record.                   *)

InitReconcile ==
    /\ InitApp(New("Hyprland", "monitors.conf", << >>, None))
    /\ event_rx = << >>
    /\ ui = "drain"
    /\ worker = "start"

\* the worker takes the oldest request, the compositor applies it to the
\* monitor as it last reported it, and the worker reports the monitor as it
\* is now
WorkerApply ==
    /\ worker = "run"
    /\ controller /= << >>
    /\ Len(event_rx) < ChannelCap
    /\ LET req      == Head(controller)
           reported == {k \in DOMAIN event_rx :
                            /\ event_rx[k].type = "Changed"
                            /\ event_rx[k].monitor.name = req.name}
           held     == {k \in Indices(monitors) : Get(monitors, k).name = req.name}
           known    == IF reported /= {} THEN event_rx[SetMax(reported)].monitor
                       ELSE Get(monitors, SetMin(held))
           applied  ==
               CASE req.type = "SetScale" -> [known EXCEPT !.scale = req.scale]
                 [] req.type = "SetTransform" ->
                        [known EXCEPT !.transform = req.transform]
                 [] req.type = "SetPosition" ->
                        [known EXCEPT !.position = [x |-> req.x, y |-> req.y]]
                 [] req.type = "SwitchMode" ->
                        [known EXCEPT !.modes =
                            [i \in DOMAIN known.modes |->
                                LET md == known.modes[i]
                                IN  [md EXCEPT !.is_current =
                                        /\ md.resolution.width = req.width
                                        /\ md.resolution.height = req.height
                                        /\ md.refresh_rate = req.refresh_rate]]]
                 [] req.type = "Toggle" ->
                        [known EXCEPT !.enabled = ~@,
                                      !.position =
                                          IF IsSome(req.position)
                                          THEN [x |-> Unwrap(req.position)[1],
                                                y |-> Unwrap(req.position)[2]]
                                          ELSE @]
       IN  /\ held /= {}
           /\ event_rx' = Append(event_rx, [type |-> "Changed", monitor |-> applied])
    /\ controller' = Tail(controller)
    /\ UNCHANGED <<monitors, selected_monitor, mode_state, transform_state,
                   pending_scale, pending_positions, panel, needs_save,
                   pending_toggle_warning, workspace_assignments, workspace_state,
                   initial_workspace_names, last_move_direction, move_repeat_count,
                   compositor, monitor_config_path, file, io,
                   ui, worker, op, prev>>

\* Tab or Right: the key is handled and the loop starts over
UiKey ==
    /\ ui = "poll"
    /\ ~pending_toggle_warning
    /\ \E after \in {toggle_panel(Begin), nav_right(Begin, REPEAT_WINDOW_MS, TRUE)} :
           ChanInstall(after)
    /\ ui' = "drain"
    /\ UNCHANGED <<event_rx, worker>>

\* Enter: apply_action, once the worker has taken the requests of the commit
\* before; the commit is recorded with the requests it sent
UiKeyEnter ==
    /\ ui = "poll"
    /\ ~pending_toggle_warning
    /\ controller = << >>
    /\ \E order \in Orderings(DOMAIN pending_positions) :
           \E after \in {apply_action(Begin, order, TRUE)} :
               /\ Install(after)
               /\ op' = [name |-> "apply_action", args |-> <<after.controller>>,
                         tr |-> TRUE]
               /\ prev' = NoPrev
    /\ ui' = "drain"
    /\ UNCHANGED <<event_rx, worker>>

NextReconcile ==
    \/ UiRecv
    \/ UiDrainEnd({TRUE})
    \/ UiPollTimeout
    \/ (/\ UiKey
        /\ event_rx = << >>
        /\ pending_scale' <= 101
        /\ panel = "Map" /\ panel' = "Map" => pending_positions = EmptyMap
        /\ panel = "Workspaces" /\ panel' = "Workspaces" => needs_save
        /\ \A i \in DOMAIN pending_positions' :
               /\ pending_positions'[i][1] <= MaxCoord
               /\ pending_positions'[i][2] <= MaxCoord)
    \/ (event_rx = << >> /\ UiKeyEnter)
    \/ WorkerStart({<<MoveMonitorA(0, 0), MoveMonitorB(TRUE, 2, 0)>>})
    \/ (/\ controller /= << >>
        /\ event_rx = << >>
        /\ WorkerEmit({Monitor("B", TRUE, 2, 0, 125, 1, <<Mode(1, 2, 60, TRUE, TRUE)>>)}))
    \/ WorkerApply

SpecReconcile == InitReconcile /\ [][NextReconcile]_vars

---------------------------------------------------------------------------
(* SpecStartup: the start of the program over a config file that exists.    *)
(* An extraction plan may be applied before a start.                        *)
(* App::new parses the workspace lines of the file; the first snapshot      *)
(* resolves them to assignments; in the Workspaces panel the user moves the *)
(* cursor and cycles assignments, which writes the file; the user quits and *)
(* starts the program again over the file as it then is.                    *)

\* the user quits ('q' or Esc) and starts the program again: App::new over
\* the file as it is
Restart ==
    /\ ui = "poll"
    /\ \E after \in {New(compositor, monitor_config_path,
                        parse_workspace_config(compositor, file), file)} :
           Install(after)
    /\ op' = NoOp
    /\ prev' = NoPrev
    /\ event_rx' = << >>
    /\ worker' = "start"
    /\ UNCHANGED ui

\* ExtractionPlan::apply on a plan, with main_text the text of the main
\* config (None: it cannot be read) and fail the number of the std::fs::write
\* that fails (0: none does).  The result is the log of the call: the writes
\* that succeeded, in order, each <<"write", path, text>>, and last the
\* value returned, <<"Ok">> or <<"Err", message>>.
apply(plan, main_text, fail) ==
    LET contains_include(l) ==
            \E i \in 1 .. Len(l) - 6 : SubSeq(l, i, i + 6) = "include"
        parent(path) ==
            LET slashes == {i \in 1 .. Len(path) : SubSeq(path, i, i) = "/"}
            IN  IF path \in {"", "/"} THEN None
                ELSE IF slashes = {} THEN Some("")
                ELSE Some(SubSeq(path, 1, SetMax(slashes) - 1))
        join(dir, name) == IF dir = "" THEN name ELSE dir \o "/" \o name
        stripped(prefix, default) ==
            IF IsSome(plan.source_line)
               /\ IsSome(strip_prefix(Unwrap(plan.source_line), prefix))
            THEN Unwrap(strip_prefix(Unwrap(plan.source_line), prefix))
            ELSE default
        output_path ==
            join(Unwrap(parent(plan.main_config)),
                 IF IsSome(plan.source_line)
                    /\ contains_include(Unwrap(plan.source_line))
                 THEN stripped("include ", "outputs.conf")
                 ELSE stripped("source = ", "monitors.conf"))
        steps == <<<<output_path, plan.output_content>>>> \o plan.modified_files
        written(k) == [i \in 1 .. k |-> <<"write", steps[i][1], steps[i][2]>>]
        \* read_to_string of the main config: what the call itself wrote
        \* there, else the text the file had
        read ==
            LET own == {i \in DOMAIN steps : steps[i][1] = plan.main_config}
            IN  IF own /= {} THEN Some(steps[SetMax(own)][2]) ELSE main_text
        content ==
            LET text == Unwrap(read)
            IN  (IF text /= << >> /\ Len(text) >= 2 /\ text[Len(text)] = << >>
                 THEN text
                 ELSE IF text = << >> THEN <<<< >>, << >>>>
                 ELSE text \o <<<< >>>>)
                \o <<<<Unwrap(plan.source_line)>>, << >>>>
    IN  IF plan.output_content = << >>
        THEN <<<<"Err", "No monitor configuration found to extract">>>>
        ELSE IF ~IsSome(parent(plan.main_config))
        THEN <<<<"Err", "Cannot determine config directory">>>>
        ELSE IF fail \in 1 .. Len(steps)
        THEN written(fail - 1)
             \o <<<<"Err", "Failed to write " \o steps[fail][1]>>>>
        ELSE IF ~IsSome(plan.source_line)
        THEN written(Len(steps)) \o <<<<"Ok">>>>
        ELSE IF ~IsSome(read)
        THEN written(Len(steps))
             \o <<<<"Err", "Failed to read " \o plan.main_config>>>>
        ELSE IF fail = Len(steps) + 1
        THEN written(Len(steps))
             \o <<<<"Err", "Failed to write " \o plan.main_config>>>>
        ELSE written(Len(steps))
             \o <<<<"write", plan.main_config, content>>, <<"Ok">>>>

\* an extraction plan is applied before the program starts: io takes the
\* log of the call and the monitor config file its text if the plan wrote
\* it, and App::new follows over the file as it then is
ApplyPlan ==
    /\ worker = "start"
    /\ io = << >>
    /\ \E plan \in
           {[output_content |-> <<<<"monitor = A, 2x1@60, 0x0, 1">>, << >>>>,
             modified_files |-> <<<<"hyprland.conf", <<<<"exec = bar">>, << >>>>>>>>,
             source_line |-> Some("source = monitors.conf"),
             main_config |-> "hyprland.conf"],
            [output_content |-> <<<<"output A pos 0 0">>, << >>>>,
             modified_files |-> <<<<"sway/config.d/outputs", << >>>>>>,
             source_line |-> Some("include outputs.conf"),
             main_config |-> "sway/config"],
            [output_content |-> <<<<"monitor = A, 2x1@60, 0x0, 1">>, << >>>>,
             modified_files |-> << >>,
             source_line |-> None,
             main_config |-> ""],
            [output_content |-> << >>,
             modified_files |-> <<<<"hyprland.conf", <<<<"exec = bar">>, << >>>>>>>>,
             source_line |-> Some("source = monitors.conf"),
             main_config |-> "hyprland.conf"]},
          main_text \in {None, Some(<<<<"exec = bar">>>>)},
          fail \in 0 .. 3 :
           \E log \in {apply(plan, main_text, fail)} :
               /\ LET text == IF \E i \in DOMAIN log :
                                     /\ log[i][1] = "write"
                                     /\ log[i][2] = monitor_config_path
                              THEN Some(plan.output_content)
                              ELSE file
                  IN  Install([New(compositor, monitor_config_path,
                                   parse_workspace_config(compositor, text), text)
                                   EXCEPT !.io = log])
               /\ op' = [name |-> "apply", args |-> <<plan, main_text, fail>>,
                         tr |-> TRUE]
               /\ prev' = NoPrev
    /\ UNCHANGED <<event_rx, ui, worker>>

\* the program starts with a compositor, a config path and the file at that
\* path (None: no file can be read there)
InitStartup ==
    /\ \E f \in
           {<<"Hyprland", "monitors.conf",
              Some(<<<<"monitor = A, 2x1@60, 0x0, 1">>,
                     <<"workspace = 1, monitor:B">>,
                     <<"  workspace=2 ,\tmonitor: A  ">>,
                     <<"workspace = x, monitor:A">>,
                     <<"workspace = 1, default:true">>,
                     <<"workspaces = 2, monitor:B">>,
                     <<"# workspace = 2, monitor:B">>,
                     <<"workspace = 2">>,
                     <<"workspace 2 output B">>,
                     << >>>>)>>,
            <<"Hyprland", "monitors.conf", Some(<<<<"workspace = 12, monitor:A">>>>)>>,
            <<"Hyprland", "monitors.conf", None>>,
            <<"Sway", "outputs.conf",
              Some(<<<<"output B disable">>,
                     <<"workspace 2 output B">>,
                     <<"\tworkspace  1   output   A ">>,
                     <<"workspace one output A">>,
                     <<"workspace 1 A">>,
                     <<"workspace = 1, monitor:B">>,
                     <<"workspace 2">>>>)>>,
            <<"River", "init", Some(<<<<"workspace = 1, monitor:A">>>>)>>,
            <<"Unknown", "monitors.conf", Some(<<<<"workspace 1 output A">>>>)>>} :
           InitApp(New(f[1], f[2], parse_workspace_config(f[1], f[3]), f[3]))
    /\ event_rx = << >>
    /\ ui = "poll"
    /\ worker = "start"

NextStartup ==
    \/ SetMonitors(PersReports.snapshots, {TRUE}, FALSE)
    \/ TogglePanel(FALSE)
    \/ (panel = "Workspaces" /\ KeyNext({0}, FALSE))
    \/ (panel = "Workspaces" /\ NavRight({0}, BOOLEAN, FALSE))
    \/ Restart
    \/ ApplyPlan

SpecStartup == InitStartup /\ [][NextStartup]_vars

---------------------------------------------------------------------------
(* Properties of removal and of workspace assignments (SpecArrangement) *)

\* the index of the monitor named n in mons: Option<index>
IndexOfName(mons, n) == Position({k \in Indices(mons) : LET m == Get(mons, k) IN m.name = n})

\* the last call was remove_monitor(n) and n was in the list, enabled or not
RemovedNamed(enabled) ==
    /\ op.name = "remove_monitor"
    /\ IsSome(IndexOfName(prev.monitors, op.args[1]))
    /\ Get(prev.monitors, Unwrap(IndexOfName(prev.monitors, op.args[1]))).enabled = enabled

\* C2: after remove_monitor(name) on a disabled monitor the monitor is gone
\* from the list and every workspace that was assigned to it is unassigned,
\* whatever index the monitor had.
C2_RemoveDisabledClearsAssignments ==
    RemovedNamed(FALSE) =>
        /\ ~IsSome(IndexOfName(monitors, op.args[1]))
        /\ \A w \in DOMAIN workspace_assignments :
               prev.workspace_assignments[w].monitor_idx
                       = IndexOfName(prev.monitors, op.args[1])
                   => workspace_assignments[w].monitor_idx = None

\* C3: remove_monitor(name) on an enabled monitor leaves the monitor list, the
\* selected-monitor index and every workspace assignment as they were.
C3_RemoveEnabledIsNoOp ==
    RemovedNamed(TRUE) =>
        /\ monitors = prev.monitors
        /\ selected_monitor = prev.selected_monitor
        /\ workspace_assignments = prev.workspace_assignments

\* C4: every workspace assignment is unassigned or holds an index smaller
\* than the number of monitors.
C4_AssignmentsInRange ==
    \A w \in DOMAIN workspace_assignments :
        IsSome(workspace_assignments[w].monitor_idx)
            => Unwrap(workspace_assignments[w].monitor_idx) < Len(monitors)

\* C4 witness: a removal shortened the list under a workspace that was
\* assigned to its last index, while another workspace stays assigned.
C4_Witness ==
    /\ op.name = "remove_monitor"
    /\ Len(monitors) < Len(prev.monitors)
    /\ \E w \in DOMAIN workspace_assignments :
           /\ IsSome(prev.workspace_assignments[w].monitor_idx)
           /\ Unwrap(prev.workspace_assignments[w].monitor_idx) >= Len(monitors)
    /\ \E w \in DOMAIN workspace_assignments :
           IsSome(workspace_assignments[w].monitor_idx)

\* the assignment of workspace w (0-based) in the App value a
AssignmentOf(a, w) == Get(a.workspace_assignments, w).monitor_idx

\* n calls of cycle_workspace_monitor(true) in a row
RECURSIVE CycleForwardTimes(_, _)
CycleForwardTimes(a, n) ==
    IF n = 0 THEN a
    ELSE CycleForwardTimes(cycle_workspace_monitor(a, TRUE, TRUE), n - 1)

EnabledSet == {i \in Indices(monitors) : Get(monitors, i).enabled}

\* the j-th enabled monitor index in increasing order, j = 1 .. k
NthEnabled(j) ==
    CHOOSE i \in EnabledSet : Cardinality({e \in EnabledSet : e < i}) = j - 1

\* C5: with k >= 1 enabled monitors and the selected workspace unassigned, the
\* j-th of k calls of cycle_workspace_monitor(true) assigns the j-th enabled
\* monitor in increasing index order, the (k+1)-th call leaves the workspace
\* unassigned, and one call of cycle_workspace_monitor(false) assigns the
\* enabled monitor with the highest index.
C5_CycleVisitsEnabledInOrder ==
    LET k == Cardinality(EnabledSet)
        w == Unwrap(workspace_state)
    IN  (k >= 1 /\ AssignmentOf(St, w) = None) =>
            /\ \A j \in 1 .. k :
                   AssignmentOf(CycleForwardTimes(St, j), w) = Some(NthEnabled(j))
            /\ AssignmentOf(CycleForwardTimes(St, k + 1), w) = None
            /\ AssignmentOf(cycle_workspace_monitor(St, FALSE, TRUE), w)
                   = Some(NthEnabled(k))

\* C5 witness: with two enabled monitors around a disabled one, a forward
\* cycle from the last enabled monitor has just returned the selected
\* workspace to unassigned.
C5_Witness ==
    /\ op.name = "nav_right"
    /\ monitors = prev.monitors
    /\ Len(monitors) = 3
    /\ EnabledSet = {0, 2}
    /\ Get(prev.workspace_assignments, Unwrap(workspace_state)).monitor_idx = Some(2)
    /\ AssignmentOf(St, Unwrap(workspace_state)) = None

---------------------------------------------------------------------------
\* the last call was cycle_workspace_monitor with a workspace selected
Cycled ==
    /\ op.name \in {"nav_left", "nav_right"}
    /\ prev.panel = "Workspaces"
    /\ IsSome(prev.workspace_state)
    /\ Unwrap(prev.workspace_state) \in Indices(prev.workspace_assignments)

\* the indices of the enabled monitors before the last call
EnabledBefore == {i \in Indices(prev.monitors) : Get(prev.monitors, i).enabled}

\* C29: cycle_workspace_monitor, forward or backward, never assigns a
\* disabled monitor and changes no workspace entry but the selected one; with
\* a monitor enabled it unassigns the selected workspace when its assignment
\* designates a monitor that is not enabled; with no monitor enabled it
\* changes nothing and saves nothing: the call returns the state as it was,
\* also when the state is dirty and the configuration is one that is written.
C29_CycleSkipsDisabled ==
    /\ Cycled =>
           LET w   == Unwrap(prev.workspace_state)
               was == Get(prev.workspace_assignments, w).monitor_idx
               now == AssignmentOf(St, w)
           IN  /\ monitors = prev.monitors
               /\ Len(workspace_assignments) = Len(prev.workspace_assignments)
               /\ \A v \in Indices(workspace_assignments) \ {w} :
                      Get(workspace_assignments, v) = Get(prev.workspace_assignments, v)
               /\ Get(workspace_assignments, w).id = Get(prev.workspace_assignments, w).id
               /\ IsSome(now) /\ now /= was => Unwrap(now) \in EnabledBefore
               /\ IF EnabledBefore = {}
                  THEN /\ now = was
                       /\ needs_save = prev.needs_save
                       /\ file = prev.file
                  ELSE IsSome(was) /\ Unwrap(was) \notin EnabledBefore => now = None
    /\ EnabledSet = {} =>
           \A forward \in BOOLEAN, comp \in {"Hyprland", "Unknown"} :
               LET dirty == [St EXCEPT !.compositor = comp, !.needs_save = TRUE]
               IN  cycle_workspace_monitor(dirty, forward, TRUE) = dirty

\* C29 witness: with a monitor enabled, a cycle has unassigned a workspace
\* that was assigned to a disabled monitor, while another workspace keeps
\* its assignment.
C29_Witness ==
    /\ Cycled
    /\ EnabledBefore /= {}
    /\ LET w   == Unwrap(prev.workspace_state)
           was == Get(prev.workspace_assignments, w).monitor_idx
       IN  /\ IsSome(was)
           /\ Unwrap(was) \in Indices(prev.monitors)
           /\ Unwrap(was) \notin EnabledBefore
           /\ AssignmentOf(St, w) = None
           /\ \E v \in Indices(workspace_assignments) \ {w} :
                  IsSome(AssignmentOf(St, v))


(* Properties of moves and commits (SpecMove) *)

\* C1: every entry of pending_positions has x >= 0 and y >= 0.
C1_PendingNonNegative ==
    \A i \in DOMAIN pending_positions :
        pending_positions[i][1] >= 0 /\ pending_positions[i][2] >= 0

\* C1 witness: A, reported at (1, 0), was moved left into B, reported at
\* (-1, 0); the edge swap recorded A at B's place clamped to (0, 0) and B at
\* (1, 0).
C1_Witness ==
    /\ last_move_direction = Some("Left")
    /\ Len(monitors) = 2
    /\ selected_monitor = 0
    /\ Get(monitors, 1).enabled /\ Get(monitors, 1).position.x < 0
    /\ DOMAIN pending_positions = {0, 1}
    /\ pending_positions[0] = <<0, 0>>
    /\ pending_positions[1] = <<1, 0>>

\* the requests in the action channel are one SetPosition per entry of the
\* map pending, each with its entry's x and y
OneSetPositionPerEntry(requests, pending) ==
    \E order \in Orderings(DOMAIN pending) :
        /\ Len(requests) = Len(order)
        /\ \A k \in DOMAIN order :
               /\ requests[k].type = "SetPosition"
               /\ requests[k].x = pending[order[k]][1]
               /\ requests[k].y = pending[order[k]][2]

\* C9: a commit in the Map panel with pending positions sends one SetPosition
\* per pending entry, empties the map and sets needs_save; with no pending
\* position it sends nothing and leaves needs_save; reset_positions empties
\* the map, sends nothing and leaves needs_save and the monitor list.
C9_CommitSendsOnePerEntry ==
    /\ (op.name = "apply_action" /\ prev.panel = "Map"
            /\ DOMAIN prev.pending_positions /= {}) =>
           /\ OneSetPositionPerEntry(controller, prev.pending_positions)
           /\ DOMAIN pending_positions = {}
           /\ needs_save
    /\ (op.name = "apply_action" /\ prev.panel = "Map"
            /\ DOMAIN prev.pending_positions = {}) =>
           /\ controller = prev.controller
           /\ needs_save = prev.needs_save
    /\ op.name = "reset_positions" =>
           /\ DOMAIN pending_positions = {}
           /\ controller = prev.controller
           /\ needs_save = prev.needs_save
           /\ monitors = prev.monitors

---------------------------------------------------------------------------
(* Properties of the scale keys (SpecScale) *)

\* C6: after every call of scale_up or scale_down, pending_scale is within
\* [0.5, 10.0], whatever scale the selected monitor was reported with.
C6_ScaleWithinLimits ==
    op.name \in {"scale_up", "scale_down"} =>
        ScaleMin <= pending_scale /\ pending_scale <= ScaleMax

---------------------------------------------------------------------------
(* Properties of the placement on enable (SpecToggle) *)

\* the monitor the recorded toggle_monitor call acted on: the selected one
Toggled == Get(prev.monitors, prev.selected_monitor)

\* the last call was toggle_monitor on a monitor that was enabled or not
ToggledFrom(enabled) ==
    /\ op.name = "toggle_monitor"
    /\ prev.selected_monitor \in Indices(prev.monitors)
    /\ Toggled.enabled = enabled

\* the monitors of mons that are enabled, as indices
EnabledIn(mons) == {i \in Indices(mons) : Get(mons, i).enabled}

\* the rectangle at p of size d overlaps an enabled monitor of mons
OverlapsEnabled(mons, p, d) ==
    \E i \in EnabledIn(mons) :
        LET m  == Get(mons, i)
            md == effective_dimensions(m)
        IN  /\ p[1] < m.position.x + md[1] /\ m.position.x < p[1] + d[1]
            /\ p[2] < m.position.y + md[2] /\ m.position.y < p[2] + d[2]

\* the four probes for a monitor of size d: left of the leftmost enabled
\* monitor, right of the rightmost, above the topmost, below the bottommost
Probes(mons, d) ==
    LET en == EnabledIn(mons)
        right(i)  == Get(mons, i).position.x + effective_dimensions(Get(mons, i))[1]
        bottom(i) == Get(mons, i).position.y + effective_dimensions(Get(mons, i))[2]
    IN  {<<SetMin({Get(mons, i).position.x : i \in en}) - d[1], 0>>,
         <<SetMax({right(i) : i \in en}), 0>>,
         <<0, SetMin({Get(mons, i).position.y : i \in en}) - d[2]>>,
         <<0, SetMax({bottom(i) : i \in en})>>}

\* the one request the recorded call sent
Sent == controller[1]

\* C7: when a disabled monitor is toggled on and its saved position overlaps
\* an enabled monitor, the Toggle request carries one of the four probe
\* positions, that position overlaps no enabled monitor, and no probe that
\* overlaps none is closer (Manhattan) to the saved position.
C7_OverlappingSavedGoesToClosestProbe ==
    (/\ ToggledFrom(FALSE)
     /\ IsSome(op.args[1])
     /\ OverlapsEnabled(prev.monitors, Unwrap(op.args[1]),
                        effective_dimensions(Toggled))) =>
        LET d     == effective_dimensions(Toggled)
            saved == Unwrap(op.args[1])
        IN  /\ Len(controller) = 1
            /\ Sent.type = "Toggle" /\ Sent.name = Toggled.name
            /\ IsSome(Sent.position)
            /\ Unwrap(Sent.position) \in Probes(prev.monitors, d)
            /\ ~OverlapsEnabled(prev.monitors, Unwrap(Sent.position), d)
            /\ \A q \in Probes(prev.monitors, d) :
                   ~OverlapsEnabled(prev.monitors, q, d) =>
                       Manhattan(Unwrap(Sent.position), saved) <= Manhattan(q, saved)

\* C7 witness: C, saved at (1, 1) on top of A (at (1, 1), with B at (2, 0)),
\* was toggled on and sent below the two, the last of the four probes.
C7_Witness ==
    /\ ToggledFrom(FALSE)
    /\ Toggled.name = "C"
    /\ op.args[1] = Some(<<1, 1>>)
    /\ Cardinality(EnabledIn(prev.monitors)) = 2
    /\ OverlapsEnabled(prev.monitors, <<1, 1>>, effective_dimensions(Toggled))
    /\ Len(controller) = 1
    /\ Sent.position = Some(<<0, 2>>)

\* C8: when a disabled monitor is toggled on, a saved position that overlaps
\* no enabled monitor is carried as it is; with no saved position the request
\* carries (R, 0), R the largest right edge of the other enabled monitors, or
\* (0, 0) when no other monitor is enabled.  A Toggle that disables a monitor
\* carries no position.
C8_SavedOrDefaultPosition ==
    /\ ToggledFrom(FALSE) =>
           /\ Len(controller) = 1
           /\ Sent.type = "Toggle" /\ Sent.name = Toggled.name
           /\ (IsSome(op.args[1])
                 /\ ~OverlapsEnabled(prev.monitors, Unwrap(op.args[1]),
                                     effective_dimensions(Toggled)))
                  => Sent.position = op.args[1]
           /\ ~IsSome(op.args[1]) =>
                  Sent.position =
                      IF EnabledIn(prev.monitors) = {} THEN Some(<<0, 0>>)
                      ELSE Some(<<SetMax({Get(prev.monitors, i).position.x
                                     + effective_dimensions(Get(prev.monitors, i))[1] :
                                         i \in EnabledIn(prev.monitors)}), 0>>)
    /\ ToggledFrom(TRUE) =>
           \A k \in DOMAIN controller :
               controller[k].type = "Toggle" => controller[k].position = None

\* C8 witness: C, with no saved position, was toggled on beside A and B,
\* whose largest right edge is 5.
C8_Witness ==
    /\ ToggledFrom(FALSE)
    /\ Toggled.name = "C"
    /\ op.args[1] = None
    /\ Cardinality(EnabledIn(prev.monitors)) = 2
    /\ Len(controller) = 1
    /\ Sent.position = Some(<<5, 0>>)

---------------------------------------------------------------------------
(* Properties of the two threads (SpecChannels) *)

\* C10: the UI thread never waits on the worker: every send of a request
\* made while handling a key returns without waiting, so the UI thread is in
\* no state waiting in a send.
C10_UiNeverWaitsInSend == ui /= "send"

---------------------------------------------------------------------------
(* Properties of the config file (SpecPersist) *)

\* C11: handling a failure notification clears needs_save and changes
\* nothing else: the monitors, the pending positions and scale, the cursors,
\* the panel, the assignments and the file stay as they were, and no request
\* is sent to the worker
C11_FailureOnlyClearsNeedsSave ==
    [][op'.name = "action_failed" =>
          /\ needs_save' = FALSE
          /\ io' = << >>
          /\ UNCHANGED <<monitors, selected_monitor, mode_state, transform_state,
                         pending_scale, pending_positions, panel,
                         pending_toggle_warning, workspace_assignments,
                         workspace_state, initial_workspace_names,
                         last_move_direction, move_repeat_count, compositor,
                         monitor_config_path, controller, file>>]_vars

\* a failure notification was handled while the state was dirty and a move
\* was pending, with a config file the save would have written
C11_Witness ==
    /\ op.name = "action_failed"
    /\ prev.needs_save
    /\ ~needs_save
    /\ DOMAIN pending_positions /= {}
    /\ monitor_config_path /= ""
    /\ compositor = "Hyprland"

\* the formatted arguments of a line: its tokens at the even places
Values(line) == [i \in 1 .. (Len(line) \div 2) |-> line[2 * i]]

\* the last call wrote the file
Wrote == \E i \in DOMAIN io : io[i] = "write"

\* the text has a line for the monitor m that carries its name, the size and
\* refresh rate of its current mode, its position, its scale and, unless it
\* is Normal under Hyprland, its transform
CarriesValues(text, m) ==
    \E i \in DOMAIN text :
        LET v  == Values(text[i])
            cm == current_mode(m)
        IN  /\ Len(v) \in {7, 8}
            /\ SubSeq(v, 1, 7) =
                   <<m.name, ToString(cm[1]), ToString(cm[2]), ToString(cm[3]),
                     ToString(m.position.x), ToString(m.position.y),
                     format_scale(m.scale)>>
            /\ IF Len(v) = 8
               THEN v[8] = IF compositor = "Hyprland" THEN ToString(m.transform)
                           ELSE transform_to_sway(m.transform)
               ELSE compositor = "Hyprland" /\ m.transform = 0

\* the text has a line that carries the monitor's name and nothing else of
\* it: the line that disables it
CarriesDisabled(text, m) ==
    \E i \in DOMAIN text : Values(text[i]) = <<m.name>>

\* C12: every write of the config file serializes, for each monitor, the
\* position, scale, transform, mode and enabled flag that the last snapshot
\* or change notification delivered for it (Sway and River keep only the
\* name of a disabled monitor); only those notifications change what is
\* serialized, so the pending positions, the pending scale and the cursors
\* never reach the file
C12_WriteSerializesReportedState ==
    /\ op.tr /\ op.name \notin {"set_monitors", "update_monitor", "loop_pass"}
           => monitors = prev.monitors
    /\ Wrote =>
           /\ IsSome(file)
           /\ \A k \in Indices(monitors) :
                  LET m == Get(monitors, k)
                  IN  /\ CarriesDisabled(Unwrap(file), m) <=> ~m.enabled
                      /\ (m.enabled \/ compositor = "Hyprland")
                             => CarriesValues(Unwrap(file), m)

\* the file was written while a monitor's pending position differed from its
\* reported position, and the file has the reported one
C12_Witness ==
    /\ Wrote
    /\ compositor = "Sway"
    /\ \E k \in DOMAIN pending_positions :
           /\ k \in Indices(monitors)
           /\ pending_positions[k][1] /= Get(monitors, k).position.x
           /\ CarriesValues(Unwrap(file), Get(monitors, k))

\* the last call was a cycle that recomputed the assignment of the
\* workspace under the cursor: Right in the Workspaces panel, with a
\* workspace under the cursor and an enabled monitor
CycledAssignment ==
    /\ op.name = "nav_right"
    /\ prev.panel = "Workspaces"
    /\ IsSome(prev.workspace_state)
    /\ Unwrap(prev.workspace_state) \in Indices(prev.workspace_assignments)
    /\ EnabledIndices(prev.monitors) /= << >>

\* std::fs::write was called in the last call, and succeeded or failed
WriteAttempted == \E i \in DOMAIN io : io[i] \in {"write", "write_failed"}

C20_UnknownSavesNothing ==
    compositor = "Unknown" =>
        /\ file = None
        /\ io = << >>
        /\ \A w \in BOOLEAN, ws \in {<< >>, <<<<1, None>>>>, <<<<1, Some("A")>>>>} :
               save_monitor_config(compositor, file, monitors, ws, w)
                   = <<file, TRUE, FALSE>>

\* with the compositor Unknown a change notification arrived while the state
\* was dirty, and the save that followed cleared needs_save
C20_Witness ==
    /\ compositor = "Unknown"
    /\ monitor_config_path /= ""
    /\ op.name = "update_monitor"
    /\ prev.needs_save
    /\ ~needs_save
    /\ \E k \in Indices(monitors) : ~Get(monitors, k).enabled

---------------------------------------------------------------------------
(* Properties of the Hyprland text (SpecPersist, compositor Hyprland) *)

\* the monitor line of m with sep between the coordinates of its position:
\* monitor = <name>, <w>x<h>@<refresh>, <x><sep><y>, <scale>, and after it
\* ", transform, <code>" exactly when the transform is not Normal
ConfigLine(m, sep) ==
    LET cm == current_mode(m)
    IN  <<"monitor = ", m.name, ", ", ToString(cm[1]), "x", ToString(cm[2]),
          "@", ToString(cm[3]), ", ", ToString(m.position.x), sep,
          ToString(m.position.y), ", ", format_scale(m.scale)>>
        \o (IF m.transform /= 0
            THEN <<", transform, ", ToString(m.transform)>> ELSE << >>)

DisableLine(m) == <<"monitor = ", m.name, ", disable">>

\* the places of the lines of the text that begin "monitor = <name>"
LinesOf(text, name) ==
    {i \in DOMAIN text :
        Len(text[i]) >= 2 /\ text[i][1] = "monitor = " /\ text[i][2] = name}

WroteHyprland == compositor = "Hyprland" /\ Wrote /\ IsSome(file)

\* C16 as stated: the line of an enabled monitor has a comma between the
\* coordinates of the position: monitor = A, 1920x1080@60, 0,0, 1
C16_LineWithCommaPosition ==
    WroteHyprland =>
        \A k \in Indices(monitors) :
            LET m == Get(monitors, k)
            IN  m.enabled =>
                    \E i \in DOMAIN Unwrap(file) :
                        Unwrap(file)[i] = ConfigLine(m, ",")

\* C16, amended: the line of an enabled monitor is exactly
\* monitor = <name>, <w>x<h>@<refresh>, <x>x<y>, <scale>, with
\* ", transform, <code>" appended exactly when the transform is not Normal;
\* it is the only line of the monitor
C16_LineWithXPosition ==
    WroteHyprland =>
        \A k \in Indices(monitors) :
            LET m == Get(monitors, k)
            IN  m.enabled =>
                    \E i \in DOMAIN Unwrap(file) :
                        /\ Unwrap(file)[i] = ConfigLine(m, "x")
                        /\ LinesOf(Unwrap(file), m.name) = {i}

\* the file holds the line of A, enabled, 1920x1080 at 60 Hz, at (0, 0),
\* scale 1, Normal, and a line with a transform clause
C16_Witness ==
    /\ WroteHyprland
    /\ Get(monitors, 0).enabled
    /\ Unwrap(file)[1] = <<"monitor = ", "A", ", ", "1920", "x", "1080", "@",
                           "60", ", ", "0", "x", "0", ", ", "1">>
    /\ \E i \in DOMAIN Unwrap(file) :
           Len(Unwrap(file)[i]) = 16 /\ Unwrap(file)[i][15] = ", transform, "

\* C17: a disabled monitor has its monitor line and, immediately after it,
\* the line monitor = <name>, disable: two lines when disabled, one when
\* enabled
C17_DisabledAddsDisableLine ==
    WroteHyprland =>
        \A k \in Indices(monitors) :
            LET m == Get(monitors, k)
                text == Unwrap(file)
            IN  IF m.enabled
                THEN Cardinality(LinesOf(text, m.name)) = 1
                ELSE \E i \in DOMAIN text :
                        /\ i + 1 \in DOMAIN text
                        /\ text[i] = ConfigLine(m, "x")
                        /\ text[i + 1] = DisableLine(m)
                        /\ LinesOf(text, m.name) = {i, i + 1}

\* the file holds the line of A, disabled, 1920x1080 at 60 Hz, at (0, 0),
\* and after it the line that disables A
C17_Witness ==
    /\ WroteHyprland
    /\ ~Get(monitors, 0).enabled
    /\ Unwrap(file)[1] = <<"monitor = ", "A", ", ", "1920", "x", "1080", "@",
                           "60", ", ", "0", "x", "0", ", ", "1">>
    /\ Unwrap(file)[2] = <<"monitor = ", "A", ", disable">>

\* C18 as stated: a disabled monitor has the disable line instead of its
\* monitor line: exactly one line per disabled monitor
C18_DisabledHasOneLine ==
    WroteHyprland =>
        \A k \in Indices(monitors) :
            LET m == Get(monitors, k)
                text == Unwrap(file)
            IN  ~m.enabled =>
                    \E i \in DOMAIN text :
                        text[i] = DisableLine(m) /\ LinesOf(text, m.name) = {i}

\* C18, amended: a disabled monitor has the disable line in addition to its
\* monitor line, not instead of it: every monitor has its monitor line once,
\* a disabled monitor has the disable line once and an enabled monitor not
\* at all
C18_DisabledKeepsConfigLine ==
    WroteHyprland =>
        \A k \in Indices(monitors) :
            LET m == Get(monitors, k)
                text == Unwrap(file)
            IN  /\ Cardinality({i \in DOMAIN text : text[i] = ConfigLine(m, "x")}) = 1
                /\ Cardinality({i \in DOMAIN text : text[i] = DisableLine(m)})
                       = IF m.enabled THEN 0 ELSE 1

\* the file was written with an enabled monitor and a disabled monitor that
\* has a transform
C18_Witness ==
    /\ WroteHyprland
    /\ \E k \in Indices(monitors) : Get(monitors, k).enabled
    /\ \E k \in Indices(monitors) :
           /\ ~Get(monitors, k).enabled
           /\ Get(monitors, k).transform /= 0
           /\ Cardinality(LinesOf(Unwrap(file), Get(monitors, k).name)) = 2

---------------------------------------------------------------------------
(* Properties of a pass of the loop (SpecPersist) *)

\* the last call was a pass of the loop that drained the queue op.args[1]
\* and then handled the Right key
Passed == op.name = "loop_pass"

\* needs_save was set when the pass began and no failure notification in the
\* queue cleared it: it is set when save_config runs after the drain
DirtyAfterDrain ==
    /\ prev.needs_save
    /\ \A i \in DOMAIN op.args[1] : op.args[1][i].type /= "ActionFailed"

---------------------------------------------------------------------------
(* Properties of workspace parsing (SpecStartup) *)

\* the lines of the files that are of the form the compositor's grammar
\* names, as the user wrote them or as a save formatted them, and the pair
\* each stands for:  workspace = <id>, monitor:<name>  for Hyprland and
\* workspace <id> output <name>  for Sway
PairOfLine(comp, line) ==
    CASE comp = "Hyprland" /\ line = <<"workspace = 1, monitor:B">> -> <<<<1, "B">>>>
      [] comp = "Hyprland" /\ line = <<"  workspace=2 ,\tmonitor: A  ">> -> <<<<2, "A">>>>
      [] comp = "Hyprland" /\ line = <<"workspace = 12, monitor:A">> -> <<<<12, "A">>>>
      [] comp = "Sway" /\ line = <<"workspace 2 output B">> -> <<<<2, "B">>>>
      [] comp = "Sway" /\ line = <<"\tworkspace  1   output   A ">> -> <<<<1, "A">>>>
      [] /\ Len(line) = 4
         /\ \/ comp = "Hyprland" /\ line[1] = "workspace = " /\ line[3] = ", monitor:"
            \/ comp = "Sway" /\ line[1] = "workspace " /\ line[3] = " output "
         -> <<<<CHOOSE n \in 1 .. workspace_count : ToString(n) = line[2], line[4]>>>>
      [] OTHER -> << >>

\* the pairs of the lines of a text, in the order of the lines
RECURSIVE PairsOfText(_, _)
PairsOfText(comp, text) ==
    IF text = << >> THEN << >>
    ELSE PairOfLine(comp, Head(text)) \o PairsOfText(comp, Tail(text))

\* C19: the workspace lines parsed at the start are the (id, name) pairs of
\* the lines of the form workspace = <id>, monitor:<name> (Hyprland; of the
\* form workspace <id> output <name> for Sway), in order; a line without
\* monitor:, with an id that is not a number, or of any other shape gives no
\* pair and no error; a file that cannot be read and a compositor that is
\* neither of the two give the empty list
C19_ParsedWorkspaceLines ==
    IsSome(initial_workspace_names) =>
        Unwrap(initial_workspace_names) =
            IF IsSome(file) /\ compositor \in {"Hyprland", "Sway"}
            THEN PairsOfText(compositor, Unwrap(file))
            ELSE << >>

\* the program started over the Hyprland file the user wrote, which has
\* lines of the form and lines that lack monitor:, have an id that is not a
\* number or are of another shape
C19_Witness ==
    /\ compositor = "Hyprland"
    /\ IsSome(file)
    /\ Len(Unwrap(file)) = 10
    /\ initial_workspace_names = Some(<<<<1, "B">>, <<2, "A">>>>)

---------------------------------------------------------------------------
(* Properties of ExtractionPlan::apply (SpecStartup) *)

\* C15: ExtractionPlan::apply is all-or-nothing: it writes the output file,
\* then each modified file, then the main config with the directive
\* appended, in that order; and a call that returns an error, as a call on a
\* plan with no output content does, has changed none of the files
C15_ApplyAllOrNothing ==
    op.name = "apply" =>
        LET plan   == op.args[1]
            writes == SubSeq(io, 1, Len(io) - 1)
            n      == Len(plan.modified_files)
        IN  /\ \A i \in DOMAIN writes :
                   /\ i = 1 => writes[i][3] = plan.output_content
                   /\ (i > 1 /\ i <= n + 1) =>
                          writes[i][2] = plan.modified_files[i - 1][1]
                   /\ i = n + 2 => writes[i][2] = plan.main_config
                   /\ i <= n + 2
            /\ io[Len(io)][1] = "Err" => writes = << >>
            /\ plan.output_content = << >> =>
                   io[Len(io)][1] = "Err" /\ writes = << >>

---------------------------------------------------------------------------
(* Properties of save_config (SpecPersist) *)

\* the last call was a pass of the loop that handled one notification and
\* ended with save_config
SavedAfterNotification ==
    op.tr /\ op.name \in {"set_monitors", "update_monitor", "action_failed"}

\* needs_save when that save_config began: the failure notification clears
\* it, the other notifications leave it as it was
DirtyAtSave == IF op.name = "action_failed" THEN FALSE ELSE prev.needs_save

\* C21: the reload is issued only after a write that succeeded.  A save
\* whose write fails issues no reload, reports the failure, attempts the
\* write once and returns with needs_save false and the file as it was; a
\* save with needs_save false or with an empty path writes nothing, issues
\* no reload and leaves needs_save as it was.
C21_ReloadOnlyAfterWrite ==
    SavedAfterNotification =>
        LET write_ok == op.args[Len(op.args)]
            writes   == DirtyAtSave /\ monitor_config_path /= ""
                        /\ compositor /= "Unknown"
        IN  /\ (~DirtyAtSave \/ monitor_config_path = "")
                   => io = << >> /\ file = prev.file /\ needs_save = DirtyAtSave
            /\ (writes /\ ~write_ok)
                   => io = <<"write_failed">> /\ file = prev.file /\ ~needs_save
            /\ (writes /\ write_ok)
                   => /\ ~needs_save
                      /\ io = IF compositor \in {"Hyprland", "Sway"}
                              THEN <<"write", "reload">> ELSE <<"write">>
            /\ (\E i \in DOMAIN io : io[i] = "reload")
                   => writes /\ write_ok /\ IsSome(file)

\* a change notification arrived while the state was dirty, the write of
\* the Hyprland file failed, and the call ended with needs_save false, no
\* reload and the file as it was
C21_Witness ==
    /\ op.name = "update_monitor"
    /\ prev.needs_save
    /\ compositor = "Hyprland"
    /\ monitor_config_path /= ""
    /\ io = <<"write_failed">>
    /\ ~needs_save
    /\ file = prev.file

---------------------------------------------------------------------------
(* Properties of one move (SpecCollide) *)

\* the direction of the recorded key in the Map panel
MoveDirection ==
    CASE op.name = "next"      -> "Down"
      [] op.name = "previous"  -> "Up"
      [] op.name = "nav_left"  -> "Left"
      [] op.name = "nav_right" -> "Right"
      [] OTHER                 -> ""

\* the last call was move_monitor on a selected monitor that is enabled
Moved ==
    /\ op.tr
    /\ op.name \in {"next", "previous", "nav_left", "nav_right"}
    /\ prev.panel = "Map"
    /\ prev.selected_monitor \in Indices(prev.monitors)
    /\ Get(prev.monitors, prev.selected_monitor).enabled

\* the position step units from p in the recorded direction, with negative
\* coordinates raised to 0
Stepped(p, step) ==
    LET q == CASE MoveDirection = "Left"  -> <<p[1] - step, p[2]>>
               [] MoveDirection = "Right" -> <<p[1] + step, p[2]>>
               [] MoveDirection = "Up"    -> <<p[1], p[2] - step>>
               [] MoveDirection = "Down"  -> <<p[1], p[2] + step>>
    IN  <<IF q[1] < 0 THEN 0 ELSE q[1], IF q[2] < 0 THEN 0 ELSE q[2]>>

Obstruction ==
    LET sel == prev.selected_monitor
    IN  Collided(prev,
                 Stepped(display_position(prev, sel), 1 + 2 * move_repeat_count),
                 effective_dimensions(Get(prev.monitors, sel)))

\* negative coordinates raised to 0
Raised(p) == <<IF p[1] < 0 THEN 0 ELSE p[1], IF p[2] < 0 THEN 0 ELSE p[2]>>

\* the rectangles at p (size d) and q (size e) touch along the axis of the
\* recorded move and are level on the other axis
Flush(p, d, q, e) ==
    IF MoveDirection \in {"Left", "Right"}
    THEN p[2] = q[2] /\ (p[1] + d[1] = q[1] \/ q[1] + e[1] = p[1])
    ELSE p[1] = q[1] /\ (p[2] + d[2] = q[2] \/ q[2] + e[2] = p[2])

\* C24 as stated: after a move that ran into an obstruction, in each of the
\* four directions, the obstruction's new pending position is the mover's
\* displayed position before the move, the mover's new pending position is
\* flush against the obstruction, and both positions are pending
C24_ObstructionToMoversStart ==
    (Moved /\ IsSome(Obstruction)) =>
        LET sel == prev.selected_monitor
            o   == Unwrap(Obstruction)
        IN  /\ {sel, o} \subseteq DOMAIN pending_positions
            /\ pending_positions[o] = display_position(prev, sel)
            /\ Flush(pending_positions[sel],
                     effective_dimensions(Get(prev.monitors, sel)),
                     pending_positions[o],
                     effective_dimensions(Get(prev.monitors, o)))

\* C24, amended: after a move that ran into an obstruction both new
\* positions are pending, the two in swapped order from the position of the
\* one that was first on the axis of the move.  Moving right or down, the
\* obstruction takes the mover's displayed position before the move and the
\* mover is placed the obstruction's effective width (height) beyond it;
\* moving left or up, the mover takes the obstruction's displayed position
\* and the obstruction is placed the mover's effective width (height) beyond
\* it.  Negative coordinates are raised to 0.
C24_SwapFromFirstOnAxis ==
    (Moved /\ IsSome(Obstruction)) =>
        LET sel   == prev.selected_monitor
            o     == Unwrap(Obstruction)
            cur   == display_position(prev, sel)
            other == display_position(prev, o)
            sd    == effective_dimensions(Get(prev.monitors, sel))
            od    == effective_dimensions(Get(prev.monitors, o))
        IN  /\ {sel, o} \subseteq DOMAIN pending_positions
            /\ MoveDirection = "Right" =>
                   /\ pending_positions[o] = Raised(cur)
                   /\ pending_positions[sel] = Raised(<<cur[1] + od[1], cur[2]>>)
            /\ MoveDirection = "Down" =>
                   /\ pending_positions[o] = Raised(cur)
                   /\ pending_positions[sel] = Raised(<<cur[1], cur[2] + od[2]>>)
            /\ MoveDirection = "Left" =>
                   /\ pending_positions[sel] = Raised(other)
                   /\ pending_positions[o] = Raised(<<other[1] + sd[1], other[2]>>)
            /\ MoveDirection = "Up" =>
                   /\ pending_positions[sel] = Raised(other)
                   /\ pending_positions[o] = Raised(<<other[1], other[2] + sd[2]>>)

\* B, 1x1 and reported at (2, 0), was moved left into A, 2x1 at (0, 0): B
\* is pending at A's place and A at (1, 0), not at (2, 0) where B was
C24_Witness ==
    /\ Moved
    /\ op.name = "nav_left"
    /\ prev.selected_monitor = 1
    /\ Obstruction = Some(0)
    /\ display_position(prev, 1) = <<2, 0>>
    /\ display_position(prev, 0) = <<0, 0>>
    /\ pending_positions[1] = <<0, 0>>
    /\ pending_positions[0] = <<1, 0>>

\* the enabled monitors other than the mover whose displayed rectangle,
\* before the recorded move, overlaps the mover's rectangle at its candidate
\* position
InTheWay ==
    LET sel  == prev.selected_monitor
        cand == Stepped(display_position(prev, sel), 1 + 2 * move_repeat_count)
        sd   == effective_dimensions(Get(prev.monitors, sel))
    IN  {i \in Indices(prev.monitors) :
            /\ i /= sel
            /\ Get(prev.monitors, i).enabled
            /\ LET p == display_position(prev, i)
                   d == effective_dimensions(Get(prev.monitors, i))
               IN  /\ cand[1] < p[1] + d[1] /\ p[1] < cand[1] + sd[1]
                   /\ cand[2] < p[2] + d[2] /\ p[2] < cand[2] + sd[2]}

\* the indices whose pending position the last call added, removed or
\* changed
PendingChanged ==
    {i \in DOMAIN pending_positions \cup DOMAIN prev.pending_positions :
        \/ i \notin DOMAIN prev.pending_positions
        \/ i \notin DOMAIN pending_positions
        \/ pending_positions[i] /= prev.pending_positions[i]}

\* C25: one move_monitor call records a pending position for the selected
\* monitor and changes the pending position of at most one other monitor:
\* the first enabled monitor, in list order, whose displayed rectangle
\* overlaps the candidate position.  The pending positions of all other
\* monitors, the monitor list, needs_save and the action channel are as
\* before; with nothing in the way only the mover's entry changes.  A move
\* key with no selected monitor, or a disabled one, changes none of these.
C25_MoveTouchesMoverAndFirstHit ==
    /\ Moved =>
           /\ prev.selected_monitor \in DOMAIN pending_positions
           /\ PendingChanged \subseteq
                  {prev.selected_monitor}
                      \cup (IF InTheWay = {} THEN {} ELSE {SetMin(InTheWay)})
           /\ InTheWay /= {} => SetMin(InTheWay) \in DOMAIN pending_positions
           /\ monitors = prev.monitors
           /\ needs_save = prev.needs_save
           /\ controller = prev.controller
    /\ (op.tr /\ ~Moved) =>
           /\ PendingChanged = {}
           /\ monitors = prev.monitors
           /\ needs_save = prev.needs_save
           /\ controller = prev.controller

\* A was moved right with B and then C in its way: A and B have new pending
\* positions and C, the second in the way, has none
C25_Witness ==
    /\ Moved
    /\ op.name = "nav_right"
    /\ prev.selected_monitor = 0
    /\ InTheWay = {1, 2}
    /\ PendingChanged = {0, 1}
    /\ 2 \notin DOMAIN pending_positions

---------------------------------------------------------------------------
(* Properties of the monitor list (SpecArrangement) *)

\* the names of the monitors of a list, in list order
NamesOf(mons) == [k \in DOMAIN mons |-> mons[k].name]

\* C27: update_monitor(m) replaces in place the entry whose name is m's
\* name, the list keeping its length and every other entry its place, or
\* appends m at the end when no entry has that name.  Hence, after a
\* snapshot of pairwise distinct names, the names stay pairwise distinct
\* under change and removal notifications, and a removal leaves the
\* surviving monitors in the order they had.
C27_ReplaceInPlaceOrAppend ==
    /\ \A i, j \in DOMAIN monitors : monitors[i].name = monitors[j].name => i = j
    /\ op.name = "update_monitor" =>
           LET m    == op.args[1]
               same == {k \in DOMAIN prev.monitors : prev.monitors[k].name = m.name}
           IN  IF same = {}
               THEN monitors = prev.monitors \o <<m>>
               ELSE /\ Len(monitors) = Len(prev.monitors)
                    /\ \A k \in DOMAIN monitors :
                           monitors[k] = IF k \in same THEN m ELSE prev.monitors[k]
    /\ op.name = "remove_monitor" =>
           /\ \A k \in DOMAIN monitors :
                  \E j \in DOMAIN prev.monitors : monitors[k] = prev.monitors[j]
           /\ monitors =
                  SelectSeq(prev.monitors,
                            LAMBDA m : \E k \in DOMAIN monitors : monitors[k].name = m.name)

\* a change notification for B replaced B's entry, between A and C, by the
\* notification's monitor, which differs from the entry it replaced
C27_Witness ==
    /\ op.name = "update_monitor"
    /\ NamesOf(prev.monitors) = <<"A", "B", "C">>
    /\ NamesOf(monitors) = <<"A", "B", "C">>
    /\ op.args[1].name = "B"
    /\ monitors[2] = op.args[1]
    /\ prev.monitors[2] /= monitors[2]

---------------------------------------------------------------------------
(* Properties of the panels and their cursors (SpecPanels) *)

\* the order of the claim: Map -> Modes -> Workspaces -> Scale -> Transform
PanelCycle == <<"Map", "Modes", "Workspaces", "Scale", "Transform">>

\* the panel after p in PanelCycle, Map after Transform
PanelAfter(p) ==
    LET k == CHOOSE i \in DOMAIN PanelCycle : PanelCycle[i] = p
    IN  PanelCycle[(k % Len(PanelCycle)) + 1]

\* C22: toggle_panel advances the active panel through the cycle Map ->
\* Modes -> Workspaces -> Scale -> Transform -> Map: a call moves to the next
\* panel of the cycle, five calls from any panel return to the same state
\* and pass every other panel once; a new App shows the Map panel; no other
\* call, key or notification, changes the active panel (the calls this
\* specification follows, and every other key pressed in the state reached).
C22_PanelCycle ==
    /\ \E i \in DOMAIN PanelCycle : PanelCycle[i] = panel
    /\ toggle_panel(St).panel = PanelAfter(panel)
    /\ Tabbed(St, Len(PanelCycle)) = St
    /\ \A n, m \in 1 .. Len(PanelCycle) :
           n /= m => Tabbed(St, n).panel /= Tabbed(St, m).panel
    /\ \A c \in Configs : New(c[1], c[2], << >>, None).panel = "Map"
    /\ op.tr => IF op.name = "toggle_panel"
                THEN panel = PanelAfter(prev.panel)
                ELSE panel = prev.panel
    /\ \A after \in {next(St, 0), previous(St, 0), nav_left(St, 0, TRUE),
                      nav_right(St, 0, TRUE), apply_action(St, << >>, TRUE),
                      reset_positions(St), toggle_monitor(St, None),
                      dismiss_warning(St)} :
           after.panel = panel

\* C22 witness: with monitors known, Tab in the Transform panel has closed
\* the cycle and shows the Map panel.
C22_Witness ==
    /\ op.name = "toggle_panel"
    /\ prev.panel = "Transform"
    /\ panel = "Map"
    /\ monitors /= << >>

\* the last call was select_next_monitor or select_prev_monitor and the
\* selection is on another monitor than before
SelectionMoved ==
    /\ op.name \in {"select_next_monitor", "select_prev_monitor"}
    /\ selected_monitor /= prev.selected_monitor
    /\ selected_monitor \in Indices(monitors)

\* pending_scale and the transform cursor are those of the monitor m
SyncedTo(m) ==
    /\ pending_scale = m.scale
    /\ IsSome(transform_state)
    /\ Unwrap(transform_state) \in Indices(TRANSFORMS)
    /\ Get(TRANSFORMS, Unwrap(transform_state)) = m.transform

\* C23 as stated: after the selection moved to another monitor M the Modes
\* cursor is at index 0, pending_scale is M's scale and the transform cursor
\* designates M's transform.
C23_ModesCursorAtZero ==
    SelectionMoved =>
        /\ mode_state = Some(0)
        /\ SyncedTo(Get(monitors, selected_monitor))

\* C23 amended: after the selection moved to another monitor M the Modes
\* cursor is at the index of M's current mode (the first one marked current),
\* at index 0 when M has no current mode; pending_scale is M's scale and the
\* transform cursor designates M's transform.
C23_ModesCursorAtCurrentMode ==
    SelectionMoved =>
        LET m       == Get(monitors, selected_monitor)
            current == {k \in Indices(m.modes) : Get(m.modes, k).is_current}
        IN  /\ mode_state = Some(IF current = {} THEN 0 ELSE SetMin(current))
            /\ SyncedTo(m)

\* C23 witness: the selection moved to a monitor whose current mode is its
\* second one and whose scale and transform differ from those shown before.
C23_Witness ==
    /\ SelectionMoved
    /\ LET m == Get(monitors, selected_monitor)
       IN  /\ Len(m.modes) >= 2
           /\ ~m.modes[1].is_current
           /\ m.modes[2].is_current
           /\ mode_state = Some(1)
           /\ prev.pending_scale /= m.scale
           /\ prev.transform_state /= transform_state

\* n calls of next in a row
RECURSIVE NextTimes(_, _)
NextTimes(a, n) == IF n = 0 THEN a ELSE NextTimes(next(a, 0), n - 1)

\* the last call was apply_action in the panel p with a monitor selected
Committed(p) ==
    /\ op.name = "apply_action"
    /\ prev.panel = p
    /\ prev.selected_monitor \in Indices(prev.monitors)

\* C28: the mode cursor of the Modes panel and the transform cursor of the
\* Transform panel move cyclically: next then previous, and previous then
\* next, restore the cursor, and as many calls of next as the list has
\* entries restore it; the mode cursor is below the number of modes of the
\* selected monitor when it has modes, the transform cursor is below 8; a
\* commit in the Modes panel requests one of the selected monitor's modes,
\* the one under the cursor, and a commit in the Transform panel one of the
\* 8 transforms.
C28_CursorsCycleInRange ==
    /\ IsSome(transform_state) /\ Unwrap(transform_state) < 8
    /\ ModesLen(St) > 0 => IsSome(mode_state) /\ Unwrap(mode_state) < ModesLen(St)
    /\ panel \in {"Modes", "Transform"} =>
           /\ previous(next(St, 0), 0) = St
           /\ next(previous(St, 0), 0) = St
           /\ NextTimes(St, IF panel = "Modes" THEN ModesLen(St) ELSE 8) = St
           /\ \A n \in 1 .. (IF panel = "Modes" THEN ModesLen(St) ELSE 8) - 1 :
                  NextTimes(St, n) /= St
    /\ Committed("Modes") /\ Get(prev.monitors, prev.selected_monitor).modes /= << >> =>
           LET m    == Get(prev.monitors, prev.selected_monitor)
               mode == Get(m.modes, Unwrap(prev.mode_state))
           IN  /\ Unwrap(prev.mode_state) \in Indices(m.modes)
               /\ controller = <<[type |-> "SwitchMode", name |-> m.name,
                                  width |-> mode.resolution.width,
                                  height |-> mode.resolution.height,
                                  refresh_rate |-> mode.refresh_rate]>>
    /\ Committed("Transform") =>
           /\ Len(controller) = 1
           /\ controller[1].type = "SetTransform"
           /\ controller[1].name = Get(prev.monitors, prev.selected_monitor).name
           /\ \E k \in 0 .. 7 :
                  /\ prev.transform_state = Some(k)
                  /\ controller[1].transform = Get(TRANSFORMS, k)

\* C28 witness: in the Modes panel next has wrapped the cursor from the last
\* of three modes to the first.
C28_Witness ==
    /\ op.name = "next"
    /\ prev.panel = "Modes"
    /\ ModesLen(St) = 3
    /\ prev.mode_state = Some(2)
    /\ mode_state = Some(0)


---------------------------------------------------------------------------
(* Properties of a commit and its notifications (SpecReconcile) *)

\* the text save_config writes for the current monitor list and workspace
\* assignments
Serialized == save_config([Begin EXCEPT !.needs_save = TRUE], TRUE).file

\* the last commit sent requests, the worker has taken them all, every
\* notification has been drained and the loop is back at the poll
CommitReconciled ==
    /\ op.name = "apply_action"
    /\ op.args[1] /= << >>
    /\ controller = << >>
    /\ event_rx = << >>
    /\ ui = "poll"

\* C30: lost-persist freedom: after a commit whose requests all succeeded,
\* once every change notification has been drained and no request is in
\* flight, the config file is the serialization of the current monitor list.
C30_NoLostPersist == CommitReconciled => file = Serialized


---------------------------------------------------------------------------
(* Properties of a removal's frame (SpecArrangement) *)

\* the name of the monitor at index idx (an Option) of the list mons, None
\* when there is no such monitor
NameAt(mons, idx) ==
    IF IsSome(idx) /\ Unwrap(idx) \in Indices(mons)
    THEN Some(Get(mons, Unwrap(idx)).name)
    ELSE None

\* the last call was remove_monitor and it took a monitor off the list
Removed ==
    /\ op.name = "remove_monitor"
    /\ Len(monitors) < Len(prev.monitors)

C34_SelectionKeepsMonitor ==
    LET was == NameAt(prev.monitors, Some(prev.selected_monitor))
    IN  /\ op.name = "remove_monitor" /\ IsSome(was) /\ Unwrap(was) /= op.args[1]
               => NameAt(monitors, Some(selected_monitor)) = was
        /\ op.name = "update_monitor" /\ IsSome(was)
           /\ (\A k \in Indices(prev.monitors) : Get(prev.monitors, k).name /= op.args[1].name)
               => NameAt(monitors, Some(selected_monitor)) = was


---------------------------------------------------------------------------
(* Properties of a notification's frame (SpecPanels) *)

\* the last call was a change notification for a monitor other than the
\* selected one, or a removal notification that removed nothing or removed
\* another monitor than the selected one
NotificationForAnother ==
    /\ op.name \in {"update_monitor", "remove_monitor"}
    /\ prev.selected_monitor \in Indices(prev.monitors)
    /\ LET selected == Get(prev.monitors, prev.selected_monitor).name
       IN  \/ op.name = "update_monitor" /\ op.args[1].name /= selected
           \/ op.name = "remove_monitor"
                  /\ (monitors = prev.monitors \/ op.args[1] /= selected)

\* C35: a notification for another monitor than the selected one leaves the
\* uncommitted edits of the selected monitor as they were: pending_scale,
\* the transform cursor and the mode cursor.
C35_NotificationKeepsEdits ==
    NotificationForAnother =>
        /\ pending_scale = prev.pending_scale
        /\ transform_state = prev.transform_state
        /\ mode_state = prev.mode_state


---------------------------------------------------------------------------
(* Properties of the position an enabling Toggle carries (SpecToggle) *)

\* C38: the position carried by a Toggle request that enables a monitor
\* overlaps the rectangle (reported position, effective dimensions) of no
\* other enabled monitor, whether it is the saved position, the closest
\* probe or the default right of the rightmost monitor.
C38_EnablePositionOverlapsNone ==
    ToggledFrom(FALSE) =>
        /\ Len(controller) = 1
        /\ Sent.type = "Toggle" /\ Sent.name = Toggled.name
        /\ IsSome(Sent.position)
        /\ ~OverlapsEnabled(prev.monitors, Unwrap(Sent.position),
                            effective_dimensions(Toggled))

\* C38 witness: C was toggled on beside two enabled monitors with a saved
\* position that overlaps one of them, and was sent elsewhere.
C38_Witness ==
    /\ ToggledFrom(FALSE)
    /\ Cardinality(EnabledIn(prev.monitors)) = 2
    /\ IsSome(op.args[1])
    /\ OverlapsEnabled(prev.monitors, Unwrap(op.args[1]), effective_dimensions(Toggled))
    /\ Len(controller) = 1
    /\ Sent.position /= op.args[1]
    /\ Unwrap(Sent.position)[1] >= 0 /\ Unwrap(Sent.position)[2] >= 0

\* C39: the position carried by a Toggle request that enables a monitor has
\* x >= 0 and y >= 0 whenever the saved position and the reported positions
\* of all enabled monitors are non-negative.
C39_EnablePositionNonNegative ==
    (/\ ToggledFrom(FALSE)
     /\ IsSome(op.args[1]) => Unwrap(op.args[1])[1] >= 0 /\ Unwrap(op.args[1])[2] >= 0
     /\ \A i \in EnabledIn(prev.monitors) :
            /\ Get(prev.monitors, i).position.x >= 0
            /\ Get(prev.monitors, i).position.y >= 0) =>
        \A k \in DOMAIN controller :
            controller[k].type = "Toggle" /\ IsSome(controller[k].position) =>
                /\ Unwrap(controller[k].position)[1] >= 0
                /\ Unwrap(controller[k].position)[2] >= 0


---------------------------------------------------------------------------
(* Properties of the last-monitor warning (SpecToggle) *)

\* the last call was 't' on the only enabled monitor, with no warning shown
LastMonitorToggled ==
    /\ ToggledFrom(TRUE)
    /\ ~prev.pending_toggle_warning
    /\ Cardinality(EnabledIn(prev.monitors)) = 1

\* the notifications that may be applied while the warning is shown
WarningNotifications ==
    {[type |-> "Changed", monitor |-> m] : m \in TogValues}
        \cup {[type |-> "Removed", name |-> n] : n \in {"A", "B", "C"}}

\* C40, the warning raised: 't' on the only enabled monitor sends no request
\* and raises the warning.
C40_Raise ==
    LastMonitorToggled => controller = prev.controller /\ pending_toggle_warning

\* C40, the answer: with the warning shown, 'y' sends exactly one Toggle
\* request and clears the warning; any other key clears the warning and
\* changes nothing else.
C40_Answer ==
    /\ (op.name = "toggle_monitor" /\ prev.pending_toggle_warning) =>
           /\ ~pending_toggle_warning
           /\ Len(controller) = Len(prev.controller) + 1
           /\ controller[Len(controller)].type = "Toggle"
    /\ pending_toggle_warning =>
           dismiss_warning(St) = [St EXCEPT !.pending_toggle_warning = FALSE]

\* C40, the target: the Toggle sent on 'y' names the monitor the warning was
\* raised for, whatever notification was applied while the warning was shown.
C40_Target ==
    LastMonitorToggled =>
        /\ \A sp \in TogSaved :
               LET b == toggle_monitor(St, sp)
               IN  Len(b.controller) = 1 /\ b.controller[1].name = Toggled.name
        /\ \A ev \in WarningNotifications, sp \in {None} :
               LET b == toggle_monitor(HandleEvent(St, ev), sp)
               IN  /\ ~b.pending_toggle_warning
                   /\ Len(b.controller) = 1
                   /\ b.controller[1].type = "Toggle"
                   /\ b.controller[1].name = Toggled.name

\* C40: the last-monitor warning protocol: the warning is raised without a
\* request, 'y' sends exactly one Toggle and clears the warning, any other
\* key only clears the warning, and the Toggle sent on 'y' names the monitor
\* the warning was raised for, even if notifications were applied while the
\* warning was shown.
C40_WarningProtocol == C40_Raise /\ C40_Answer /\ C40_Target



(* Properties of the rectangles after an edge swap (SpecCollide) *)

\* the rectangles at p (size d) and q (size e) have a point in common
Overlapping(p, d, q, e) ==
    /\ p[1] < q[1] + e[1] /\ q[1] < p[1] + d[1]
    /\ p[2] < q[2] + e[2] /\ q[2] < p[2] + d[2]

\* C37: after a move that ran into an obstruction, in each of the four
\* directions, the rectangle of the mover at its new pending position and
\* the rectangle of the obstruction at its new pending position, each with
\* its effective dimensions, do not overlap
C37_SwappedRectanglesApart ==
    (Moved /\ IsSome(Obstruction)) =>
        LET sel == prev.selected_monitor
            o   == Unwrap(Obstruction)
        IN  /\ {sel, o} \subseteq DOMAIN pending_positions
            /\ ~Overlapping(pending_positions[sel],
                            effective_dimensions(Get(prev.monitors, sel)),
                            pending_positions[o],
                            effective_dimensions(Get(prev.monitors, o)))



(* Properties of the selected index (SpecArrangement) *)

\* the selected index of a is 0 with no monitors and within the list
\* otherwise
SelectedInRange(a) ==
    IF a.monitors = << >>
    THEN a.selected_monitor = 0
    ELSE a.selected_monitor < Len(a.monitors)

\* C36: in every state reached through a snapshot, change and removal
\* notifications and selection keys, and in the state a further snapshot
\* (empty, or a repeated one) and a change notification after it lead to,
\* the selected index is below the number of monitors when there are
\* monitors and is 0 when there are none
C36_SelectedIndexInRange ==
    /\ SelectedInRange(St)
    /\ \A mons \in ArrSnapshots :
           LET b == set_monitors(St, mons)
           IN  /\ SelectedInRange(b)
               /\ \A m \in ArrValues : SelectedInRange(update_monitor(b, m))



(* Properties of the requests of a commit (SpecCollide) *)

\* the monitors are listed as the snapshot listed them (nothing is removed
\* or appended in SpecCollide), so the position pending under index i was
\* recorded by move_monitor for the monitor now at index i
RecordedFor(name, pos) ==
    \E i \in DOMAIN pending_positions :
        /\ i \in Indices(monitors)
        /\ Get(monitors, i).name = name
        /\ pending_positions[i] = pos

\* every request of a commit made in state a carries a position to the
\* monitor it was recorded for
CommitNamesRecorded(a) ==
    \A order \in Orderings(DOMAIN a.pending_positions) :
        LET reqs == apply_action(a, order, TRUE).controller
        IN  \A k \in DOMAIN reqs :
                /\ reqs[k].type = "SetPosition"
                /\ RecordedFor(reqs[k].name, <<reqs[k].x, reqs[k].y>>)

\* C32: a commit in the Map panel, made at once or after a removal or a
\* change notification that follows the moves, sends each pending position
\* to the monitor move_monitor recorded it for, never to another monitor
C32_PositionsReachTheirMonitor ==
    /\ CommitNamesRecorded(St)
    /\ \A m \in MoveValues : CommitNamesRecorded(update_monitor(St, m))
    /\ \A n \in {"A", "B", "C"} : CommitNamesRecorded(remove_monitor(St, n))



(* Properties of disabling requests in flight (SpecToggle) *)

\* the monitors named by the disabling Toggle requests that a has sent and
\* the worker has not taken yet
InFlightDisabled(a) ==
    {a.controller[k].name :
        k \in {j \in DOMAIN a.controller :
                  /\ a.controller[j].type = "Toggle"
                  /\ a.controller[j].position = None}}

\* 't' in state a, with no warning shown, sends a disabling Toggle only if
\* an enabled monitor is left that neither it nor a request in flight names
DisableLeavesOne(a, saved_pos) ==
    ~a.pending_toggle_warning =>
        LET b == toggle_monitor(a, saved_pos)
        IN  \A k \in DOMAIN b.controller \ DOMAIN a.controller :
                (b.controller[k].type = "Toggle" /\ b.controller[k].position = None)
                    => \E i \in EnabledIn(a.monitors) :
                           Get(a.monitors, i).name \notin
                               InFlightDisabled(a) \cup {b.controller[k].name}

\* C31: with no warning confirmed, 't' pressed in any state, at once or
\* after the selection moved to the next monitor, before the worker has
\* taken the requests sent so far, requests disabling a monitor only if
\* another monitor is enabled that no disabling request in flight names
C31_NeverDisablesEveryMonitor ==
    \A sp \in TogSaved :
        /\ DisableLeavesOne(St, sp)
        /\ DisableLeavesOne(select_next_monitor(St), sp)


====
